---- MODULE Spec2Model ----
(***************************************************************************)
(* A model of the playwright_mcp server: the BrowserManager session (one   *)
(* driver, engine, context and the tab mapping), the ToolRegistry          *)
(* dispatcher and the protocol handler handle_call_tool.                   *)
(*                                                                         *)
(* Tool invocations run as asyncio tasks on one event loop.  A task runs   *)
(* without interruption from one engine call (an await on the playwright   *)
(* driver) to the next; each action below is one such segment: it          *)
(* completes the engine call the task is waiting for and runs the code     *)
(* that follows up to the next engine call or to the return.               *)
(***************************************************************************)
EXTENDS Integers, Sequences, FiniteSets, TLC

\* Bounds of the model.
MaxBrowsers == 3
MaxShared == 2
MaxTabArg == 2
MaxHeight == 6
MaxTile == 3
MaxPages == 4
InnerHeight == 2

Tasks == {"t1", "t2"}

\* Python's None as it prints in an f-string, and a key missing from args.
None == "None"
Absent == "<absent>"

Url == "https://example.com"

\* The engine selections start() accepts, and one it rejects.
\* timeout: int = 30000, the default of the constructors and of the CLI.
DefaultTimeout == 30000

\* The default timeouts a session is configured with.
ConfiguredTimeouts == {5000, DefaultTimeout}

\* The timeout a client passes as an argument.
ArgTimeout == 1000

SupportedBrowserTypes == {"chromium", "firefox", "webkit"}
BrowserTypes == {"chromium", "opera"}

----------------------------------------------------------------------------
\* The tool categories, in declaration order: every ToolInfo with its name,
\* description and input_schema (a dict: the keys it has are the fields of
\* the record; properties is given by its keys), and the required arguments.

NavigationTools ==
    << [name |-> "browser_navigate", required |-> <<"url">>,
        description |-> "Navigate to a URL",
        input_schema |-> [type |-> "object", properties |-> {"url"}, required |-> <<"url">>]],
       [name |-> "browser_navigate_back", required |-> <<>>,
        description |-> "Go back to the previous page",
        input_schema |-> [type |-> "object", properties |-> {}]],
       [name |-> "browser_navigate_forward", required |-> <<>>,
        description |-> "Go forward to the next page",
        input_schema |-> [type |-> "object", properties |-> {}]] >>

InteractionTools ==
    << [name |-> "browser_click", required |-> <<"selector">>,
        description |-> "Click on an element",
        input_schema |-> [type |-> "object", properties |-> {"selector", "timeout"}, required |-> <<"selector">>]],
       [name |-> "browser_type", required |-> <<"selector", "text">>,
        description |-> "Type text into an input field",
        input_schema |-> [type |-> "object", properties |-> {"selector", "text", "clear"}, required |-> <<"selector", "text">>]],
       [name |-> "browser_fill", required |-> <<"selector", "value">>,
        description |-> "Fill an input field",
        input_schema |-> [type |-> "object", properties |-> {"selector", "value"}, required |-> <<"selector", "value">>]],
       [name |-> "browser_select_option", required |-> <<"selector", "value">>,
        description |-> "Select option from dropdown",
        input_schema |-> [type |-> "object", properties |-> {"selector", "value"}, required |-> <<"selector", "value">>]] >>

CaptureTools ==
    << [name |-> "browser_screenshot", required |-> <<>>,
        description |-> "Take a screenshot of the current page",
        input_schema |-> [type |-> "object", properties |-> {"filename", "full_page", "element_selector"}]],
       [name |-> "browser_screenshot_pages", required |-> <<>>,
        description |-> "Take screenshots page by page (useful for long pages)",
        input_schema |-> [type |-> "object", properties |-> {"folder", "filename_prefix", "viewport_height", "overlap", "max_pages", "format", "quality"}]],
       [name |-> "browser_get_text", required |-> <<>>,
        description |-> "Extract text content from page or element",
        input_schema |-> [type |-> "object", properties |-> {"selector"}]],
       [name |-> "browser_get_html", required |-> <<>>,
        description |-> "Get HTML content of page or element",
        input_schema |-> [type |-> "object", properties |-> {"selector"}]],
       [name |-> "browser_console_messages", required |-> <<>>,
        description |-> "Get console messages from the page",
        input_schema |-> [type |-> "object", properties |-> {}]],
       [name |-> "browser_download_pdf", required |-> <<"filename">>,
        description |-> "Download the current page as PDF",
        input_schema |-> [type |-> "object", properties |-> {"folder", "filename", "format", "landscape", "scale", "display_header_footer", "print_background", "margin"}, required |-> <<"filename">>]],
       [name |-> "browser_download_pdf_with_curl", required |-> <<"url">>,
        description |-> "Download a PDF file from a specific URL using curl for maximum compatibility",
        input_schema |-> [type |-> "object", properties |-> {"url", "folder", "filename", "follow_redirects", "max_time"}, required |-> <<"url">>]] >>

UtilityTools ==
    << [name |-> "browser_wait", required |-> <<>>,
        description |-> "Wait for a specified time or element",
        input_schema |-> [type |-> "object", properties |-> {"time", "selector", "text", "timeout"}]],
       [name |-> "browser_reload", required |-> <<>>,
        description |-> "Reload the current page",
        input_schema |-> [type |-> "object", properties |-> {}]],
       [name |-> "browser_scroll", required |-> <<"direction">>,
        description |-> "Scroll the page",
        input_schema |-> [type |-> "object", properties |-> {"direction", "amount"}, required |-> <<"direction">>]],
       [name |-> "browser_evaluate", required |-> <<"code">>,
        description |-> "Execute JavaScript code in the browser",
        input_schema |-> [type |-> "object", properties |-> {"code"}, required |-> <<"code">>]],
       [name |-> "browser_tab_new", required |-> <<>>,
        description |-> "Open a new browser tab",
        input_schema |-> [type |-> "object", properties |-> {"url"}]],
       [name |-> "browser_tab_close", required |-> <<>>,
        description |-> "Close current or specified tab",
        input_schema |-> [type |-> "object", properties |-> {"tab_id"}]],
       [name |-> "browser_tab_list", required |-> <<>>,
        description |-> "List all open browser tabs",
        input_schema |-> [type |-> "object", properties |-> {}]],
       [name |-> "browser_tab_switch", required |-> <<"tab_id">>,
        description |-> "Switch to a specific tab",
        input_schema |-> [type |-> "object", properties |-> {"tab_id"}, required |-> <<"tab_id">>]] >>

\* dict assignment tools[name] = info: replaces in place, else appends.
RECURSIVE _register_tools(_, _)
_register_tools(reg, provided) ==
    IF provided = <<>> THEN reg
    ELSE LET info == Head(provided)
             put == IF \E i \in 1..Len(reg) : reg[i].name = info.name
                    THEN [i \in 1..Len(reg) |->
                            IF reg[i].name = info.name THEN info ELSE reg[i]]
                    ELSE Append(reg, info)
         IN _register_tools(put, Tail(provided))

ToolRegistry ==
    _register_tools(_register_tools(_register_tools(_register_tools(<<>>,
        NavigationTools), InteractionTools), CaptureTools), UtilityTools)

\* tool_name in self.tools
IsRegistered(reg, nm) == \E i \in 1..Len(reg) : reg[i].name = nm

----------------------------------------------------------------------------
\* ToolResult values.  A text is the sequence of the pieces its f-string
\* puts together (the leading emoji markers are left out).

TextContent(pieces) == [type |-> "text", text |-> pieces]

ToolResult(pieces, err) == [content |-> <<TextContent(pieces)>>, is_error |-> err]

\* An inline image; its data is the tile it encodes.
ImageContent(tile) == [type |-> "image", data |-> tile]

\* A dispatcher that reports an unknown name as a success.
NotFoundResultPlain(nm) == ToolResult(<<"Tool '", nm, "' ", "not found">>, FALSE)

\* execute_tool, unknown name
NotFoundResult(nm) == ToolResult(<<"Tool '", nm, "' ", "not found">>, TRUE)

\* A dispatcher that flags the fault and says nothing.
ErrorResultEmpty(nm, msg) == [content |-> <<>>, is_error |-> TRUE]

\* A dispatcher that hands back the bare message of the fault.
ErrorResultBare(nm, msg) == ToolResult(<<msg>>, TRUE)

\* execute_tool, except Exception
ErrorResult(nm, msg) == ToolResult(<<"Error executing ", nm, ": ", msg>>, TRUE)

\* What the protocol layer gets for a handler that returned normally: the
\* content list, which the call_tool decorator wraps with isError = False.
handle_call_tool_return(res) == [content |-> res.content, isError |-> FALSE]

\* str(e) of the faults the handlers meet.
KeyErrorMsg(key) == "'" \o key \o "'"
EngineFault == "engine fault"
UnsupportedMsg(bt) == "Unsupported browser type: " \o bt


----------------------------------------------------------------------------
\* The tab mapping: a dict, modelled as the sequence of its Tab values in
\* insertion order; the key of an entry is its tab_id.

\* A Page handle: its identity and the context it was created in.
Page(id, ctx) == [id |-> id, context |-> ctx]

Tab(page, id) == [page |-> page, tab_id |-> id]

HasTab(tbs, id) == \E i \in 1..Len(tbs) : tbs[i].tab_id = id

TabOf(tbs, id) == tbs[CHOOSE i \in 1..Len(tbs) : tbs[i].tab_id = id]

Keys(tbs) == {tbs[i].tab_id : i \in 1..Len(tbs)}

\* tab_id = f"tab_{len(self.tabs) + 1}"
NextTabId(tbs) == "tab_" \o ToString(Len(tbs) + 1)

\* self.tabs[tab_id] = tab
SetTab(tbs, tab) ==
    IF HasTab(tbs, tab.tab_id)
    THEN [i \in 1..Len(tbs) |-> IF tbs[i].tab_id = tab.tab_id THEN tab ELSE tbs[i]]
    ELSE Append(tbs, tab)

\* A del that drops the oldest entry, whatever the key.
DelTabOldest(tbs, id) == Tail(tbs)

\* del self.tabs[tab_id]
DelTab(tbs, id) == SelectSeq(tbs, LAMBDA e : e.tab_id # id)

\* A get_current_tab that opens a tab on every call.
AlwaysNewTab(cur, tbs) == TRUE

\* get_current_tab: not self.current_tab_id or self.current_tab_id not in self.tabs
NeedsNewTab(cur, tbs) == cur = None \/ ~HasTab(tbs, cur)

\* A close_tab without its membership test.
CloseTabUnguarded(tbs, id) == TRUE

\* close_tab: if tab_id in self.tabs
CloseTabGuard(tbs, id) == HasTab(tbs, id)

\* A switch_tab without its membership test.
SwitchTabUnguarded(tbs, id) == TRUE

\* switch_tab: if tab_id in self.tabs
SwitchTabGuard(tbs, id) == HasTab(tbs, id)

\* A close_tab that unsets the current slot whenever it closed the current tab.
PromoteCurrentUnset(tbs, cur, id) == IF cur = id THEN None ELSE cur

\* A close_tab that leaves the current slot as it was.
PromoteCurrentStale(tbs, cur, id) == cur

\* close_tab, after the del: the current slot
PromoteCurrent(tbs, cur, id) ==
    IF cur = id
    THEN (IF Len(tbs) > 0 THEN tbs[1].tab_id ELSE None)
    ELSE cur

\* A list_tabs that flags the entry listed last.
list_tabs_last_active(tbs, cur) ==
    [i \in 1..Len(tbs) |->
        [id |-> tbs[i].tab_id, title |-> "Loading...",
         active |-> (i = Len(tbs))]]

\* list_tabs
list_tabs(tbs, cur) ==
    [i \in 1..Len(tbs) |->
        [id |-> tbs[i].tab_id, title |-> "Loading...",
         active |-> (tbs[i].tab_id = cur)]]

----------------------------------------------------------------------------
VARIABLES
    scenario,         \* the load: tasks running at once, engines, engine faults
    browser_type,     \* the configured engine selection
    timeout,          \* BrowserManager.timeout, the configured default timeout
    tools,            \* ToolRegistry.tools
    playwright,       \* BrowserManager.playwright (0 is None)
    browser,          \* BrowserManager.browser (0 is None)
    context,          \* BrowserManager.context (0 is None)
    tabs,             \* BrowserManager.tabs
    current_tab_id,   \* BrowserManager.current_tab_id
    drivers,          \* the engine side: the drivers running
    browsers,         \* the engine instances running, each with its driver
    contexts,         \* the contexts open
    pages,            \* the pages open
    task,             \* the tool invocations in progress: position and locals
    out,              \* what the step just taken handed back to the caller
    assigned,         \* every tab identifier new_tab has assigned
    call,             \* the dispatcher alone: one execute_tool call and its result
    shot,             \* the tiled capture alone: the page and the handler's locals
    pdf               \* the PDF download alone: the page's history and the handler's locals

sessVars == <<playwright, browser, context, tabs, current_tab_id>>
engineVars == <<drivers, browsers, contexts, pages>>
vars == <<scenario, browser_type, timeout, tools, playwright, browser, context, tabs, current_tab_id,
          drivers, browsers, contexts, pages, task, out, assigned>>

NoArgs == [url |-> Absent, tab_id |-> Absent]

\* pre is the session as get_current_tab found it, kept for as long as no
\* other task has run; fresh tells that it found no current tab; sawEngine
\* tells that start() found an engine instance and a context running.
IdleTask ==
    [pc |-> "idle", name |-> "", args |-> NoArgs, target |-> 0, tab_id |-> None,
     ret |-> <<>>, sawEngine |-> FALSE, fresh |-> FALSE, pre |-> <<>>]

\* No execute_tool call is looked at on its own; timeout is the timeout its
\* engine call runs with (0 before it is issued); invoked counts the times the
\* call has awaited tool_info.execute(arguments); exc is the exception that
\* left execute_tool, response the list handle_call_tool returned and escaped
\* the exception that left handle_call_tool.
IdleCall ==
    [pc |-> "idle", name |-> "", args |-> {}, result |-> <<>>, raised |-> <<>>,
     invoked |-> 0, exc |-> <<>>, response |-> <<>>, escaped |-> <<>>, timeout |-> 0]

\* No tiled capture is in progress on a page of height h scrolled to y;
\* entry, fault_at, restore_failed and cancelled_at tell what happened to the
\* call.
IdleShot(h, y) ==
    [pc |-> "idle", height |-> h, scrollY |-> y,
     viewport_height |-> 0, overlap |-> 0, max_pages |-> 0,
     page_height |-> 0, effective_height |-> 0, num_pages |-> 0,
     original_scroll |-> 0, page_num |-> 0, scroll_y |-> 0, clip_height |-> 0,
     filenames |-> 0, screenshots |-> <<>>,
     exc |-> <<>>, result |-> <<>>,
     entry |-> y, fault_at |-> "", restore_failed |-> FALSE, cancelled_at |-> ""]

\* No PDF download is in progress on a page whose session history is
\* history, showing its entry number at.
IdlePdf(history, at) ==
    [pc |-> "idle", history |-> history, at |-> at, entry |-> history[at],
     pdf_links |-> 0, i |-> 0, downloaded_files |-> 0, failed_downloads |-> 0,
     result |-> <<>>]

\* One invocation at a time, on a sound engine or on one whose calls may
\* fail, or two invocations at a time.
Scenarios ==
    { [tasks |-> {"t1"}, engines |-> MaxBrowsers, faults |-> FALSE],
      [tasks |-> {"t1"}, engines |-> MaxShared, faults |-> TRUE],
      [tasks |-> Tasks, engines |-> MaxShared, faults |-> FALSE] }

Init ==
    /\ scenario \in Scenarios
    /\ browser_type \in BrowserTypes
    /\ timeout = DefaultTimeout
    /\ tools = ToolRegistry
    /\ playwright = 0
    /\ browser = 0
    /\ context = 0
    /\ tabs = <<>>
    /\ current_tab_id = None
    /\ drivers = {}
    /\ browsers = {}
    /\ contexts = {}
    /\ pages = {}
    /\ task = [t \in Tasks |-> IdleTask]
    /\ out = <<>>
    /\ assigned = {}
    /\ call = IdleCall
    /\ shot = IdleShot(0, 0)
    /\ pdf = IdlePdf(<<"page">>, 1)

----------------------------------------------------------------------------
\* The engine side (the playwright driver).  Handles are numbers.  start()
\* creates every context on the engine instance it has just launched and
\* new_tab every page in the context start() has just created, so a context
\* carries the number of its engine instance and a page that of its context.
\* A number is handed out again only when nothing running and no field, tab
\* or task still refers to it.

Fresh(used) == CHOOSE n \in 1..(Cardinality(used) + 1) :
                   n \notin used /\ \A m \in 1..(n - 1) : m \in used

Targets(pcs) == {task[t].target : t \in {u \in Tasks : task[u].pc \in pcs}}

FreshDriver ==
    Fresh(drivers \cup {playwright} \cup {x.driver : x \in browsers}
          \cup Targets({"launch", "playwright_stop"}))

Ids(objs) == {x.id : x \in objs}

FreshBrowser ==
    Fresh(Ids(browsers) \cup contexts \cup pages \cup {browser, context}
          \cup {tabs[i].page.id : i \in 1..Len(tabs)}
          \cup Targets({"new_context", "browser_close", "new_page", "context_close",
                        "new_tab_goto", "goto", "get_title", "page_close",
                        "bring_to_front"}))

\* Closing a context closes its pages, closing an engine instance closes its
\* contexts, stopping the driver ends its engine instances.
BrowsersOf(ds) == {b \in browsers : b.driver \in ds}

ContextsOf(bs) == contexts \cap Ids(bs)

PagesOf(cs) == pages \cap cs

\* An engine call can succeed only on a live target; a faulty engine may
\* fail any call.
Outcomes(live) ==
    (IF live THEN {TRUE} ELSE {FALSE}) \cup (IF scenario.faults THEN {FALSE} ELSE {})

\* start() may begin only while the model has room for one more driver,
\* engine and tab.
Starting == {t \in Tasks : task[t].pc \in {"playwright_start", "launch",
                                            "new_context", "new_page"}}

Room ==
    /\ Cardinality(drivers) + Cardinality(Starting) < scenario.engines
    /\ Cardinality(browsers) + Cardinality(Starting) < scenario.engines
    /\ Len(tabs) + Cardinality(Starting) < scenario.engines

----------------------------------------------------------------------------
\* Task bookkeeping.  A step of task t replaces its record and says what it
\* handed back; any other task has now been interleaved with.

Upd(t, rec, o) ==
    /\ task' = [u \in Tasks |->
                  IF u = t THEN rec ELSE [task[u] EXCEPT !.pre = <<>>]]
    /\ out' = o

\* The handler returned res: execute_tool returns it unchanged and
\* handle_call_tool returns its content.
Return(t, r, res) ==
    Upd(t, IdleTask,
        <<[op |-> "call_tool", name |-> r.name, args |-> r.args, result |-> <<res>>,
           response |-> <<handle_call_tool_return(res)>>, raised |-> <<>>]>>)

\* The handler raised msg: execute_tool's except turns it into a result.
Caught(t, r, msg) ==
    Upd(t, IdleTask,
        <<[op |-> "call_tool", name |-> r.name, args |-> r.args,
           result |-> <<ErrorResult(r.name, msg)>>,
           response |-> <<handle_call_tool_return(ErrorResult(r.name, msg))>>,
           raised |-> <<msg>>]>>)

\* stop() returned, or raised msg into the finally of PlaywrightMCPServer.run.
Stopped(t, r, exc) ==
    Upd(t, IdleTask,
        <<[op |-> "stop", name |-> r.name, args |-> r.args, result |-> <<>>, response |-> <<>>,
           raised |-> exc]>>)

\* The task now waits for the engine call at, issued on the handle target.
Await(t, r, at, tgt) == Upd(t, [r EXCEPT !.pc = at, !.target = tgt], <<>>)

----------------------------------------------------------------------------
\* BrowserManager.get_current_tab, new_tab and start, as far as they run
\* before the first engine call.  These constrain task' only.

\* An exception leaves new_tab: _new_tab catches it, _navigate does not.
NewTabRaise(t, r, msg) ==
    IF r.name = "browser_tab_new"
    THEN Return(t, r, ToolResult(<<"New tab failed: ", msg>>, TRUE))
    ELSE Caught(t, r, msg)

\* start(), from the engine selection on; pw is self.playwright.
Launch(t, r, pw) ==
    IF browser_type \in SupportedBrowserTypes
    THEN Await(t, r, "launch", pw)
    ELSE NewTabRaise(t, r, UnsupportedMsg(browser_type))

\* start(), from its first line.
start(t, r) ==
    LET r1 == [r EXCEPT !.sawEngine = (browser \in Ids(browsers) /\ context \in contexts)]
    IN /\ Room
       /\ IF playwright = 0
          THEN Await(t, r1, "playwright_start", 0)
          ELSE Launch(t, r1, playwright)

new_tab(t, r) == start(t, r)

\* get_current_tab, its second test, and the handler's first engine call.
GetCurrentTabReturn(t, r, tbs, cur) ==
    IF cur # None /\ HasTab(tbs, cur)
    THEN Upd(t, [r EXCEPT !.ret = <<[tab_id |-> cur, page |-> TabOf(tbs, cur).page.id]>>,
                          !.pc = "goto", !.target = TabOf(tbs, cur).page.id], <<>>)
    ELSE Caught(t, r, "Failed to create or access current tab")

get_current_tab(t, r) ==
    IF NeedsNewTab(current_tab_id, tabs)
    THEN new_tab(t, r)
    ELSE GetCurrentTabReturn(t, r, tabs, current_tab_id)

\* new_tab returned tab.
NewTabReturn(t, r, id, tbs, cur) ==
    IF r.name = "browser_tab_new"
    THEN Return(t, r, ToolResult(<<"New tab opened: ", id>>, FALSE))
    ELSE GetCurrentTabReturn(t, r, tbs, cur)

----------------------------------------------------------------------------
\* The tool handlers, up to their first engine call.

_navigate(t, r) ==
    /\ IF r.args.url = Absent
       THEN Caught(t, r, KeyErrorMsg("url"))
       ELSE get_current_tab(t,
              [r EXCEPT !.pre = <<[cur |-> current_tab_id, tabs |-> tabs,
                                   browsers |-> Ids(browsers)]>>,
                        !.fresh = NeedsNewTab(current_tab_id, tabs)])
    /\ UNCHANGED <<sessVars, engineVars, assigned>>

_new_tab(t, r) ==
    /\ new_tab(t, r)
    /\ UNCHANGED <<sessVars, engineVars, assigned>>

_close_tab(t, r) ==
    LET id == IF r.args.tab_id # Absent THEN r.args.tab_id ELSE current_tab_id
    IN /\ IF CloseTabGuard(tabs, id)
          THEN IF HasTab(tabs, id)
               THEN Await(t, [r EXCEPT !.tab_id = id], "page_close", TabOf(tabs, id).page.id)
               ELSE Return(t, r, ToolResult(<<"Close tab failed: ", KeyErrorMsg(id)>>, TRUE))
          ELSE Return(t, r, ToolResult(<<"Tab closed: ", id>>, FALSE))
       /\ UNCHANGED <<sessVars, engineVars, assigned>>

\* A browser_tab_list that asks for the current tab first.
_list_tabs_eager(t, r) ==
    /\ get_current_tab(t, r)
    /\ UNCHANGED <<sessVars, engineVars, assigned>>

_list_tabs(t, r) ==
    LET lst == list_tabs(tabs, current_tab_id)
        line(e) == <<(IF e.active THEN "*" ELSE " "), e.id, e.title>>
        text[i \in 0..Len(lst)] ==
            IF i = 0 THEN <<"Open tabs:">> ELSE text[i - 1] \o line(lst[i])
    IN /\ IF lst = <<>>
          THEN Return(t, r, ToolResult(<<"No tabs open">>, FALSE))
          ELSE Return(t, r, ToolResult(text[Len(lst)], FALSE))
       /\ UNCHANGED <<sessVars, engineVars, assigned>>

_switch_tab(t, r) ==
    IF r.args.tab_id = Absent
    THEN /\ Caught(t, r, KeyErrorMsg("tab_id"))
         /\ UNCHANGED <<sessVars, engineVars, assigned>>
    ELSE LET id == r.args.tab_id
         IN IF SwitchTabGuard(tabs, id)
            THEN /\ current_tab_id' = id
                 /\ IF HasTab(tabs, id)
                    THEN Await(t, [r EXCEPT !.tab_id = id], "bring_to_front",
                               TabOf(tabs, id).page.id)
                    ELSE Return(t, r, ToolResult(<<"Switch tab failed: ",
                                                   KeyErrorMsg(id)>>, TRUE))
                 /\ UNCHANGED <<playwright, browser, context, tabs,
                                engineVars, assigned>>
            ELSE /\ Return(t, r, ToolResult(<<"Switched to tab: ", id>>, FALSE))
                 /\ UNCHANGED <<sessVars, engineVars, assigned>>

\* The invocations a client sends: tool names, registered or not, with
\* their arguments present or missing.
TabIdArgs == {"tab_" \o ToString(n) : n \in 1..MaxTabArg}

Invocations ==
    [name : {"browser_navigate", "browser_tab_new"},
     args : {[url |-> u, tab_id |-> Absent] : u \in {Url, Absent}}]
    \cup [name : {"browser_tab_close", "browser_tab_switch"},
          args : {[url |-> Absent, tab_id |-> i] : i \in TabIdArgs \cup {Absent}}]
    \cup [name : {"browser_tab_list", "invalid_tool"}, args : {NoArgs}]

\* handle_call_tool and execute_tool, up to the handler's first engine call.
handle_call_tool(t, nm, a) ==
    LET r == [IdleTask EXCEPT !.name = nm, !.args = a]
    IN /\ t \in scenario.tasks
       /\ task[t].pc = "idle"
       /\ out = <<>>
       /\ UNCHANGED <<call, shot, pdf, scenario, browser_type, timeout, tools>>
       /\ IF ~IsRegistered(tools, nm)
          THEN /\ Return(t, r, NotFoundResult(nm))
               /\ UNCHANGED <<sessVars, engineVars, assigned>>
          ELSE CASE nm = "browser_navigate" -> _navigate(t, r)
                 [] nm = "browser_tab_new" -> _new_tab(t, r)
                 [] nm = "browser_tab_close" -> _close_tab(t, r)
                 [] nm = "browser_tab_list" -> _list_tabs(t, r)
                 [] nm = "browser_tab_switch" -> _switch_tab(t, r)

----------------------------------------------------------------------------
\* BrowserManager.start, after each of its engine calls.

\* async_playwright().start() completed.
playwright_started(t) ==
    LET r == task[t]
        d == FreshDriver
    IN /\ r.pc = "playwright_start"
       /\ out = <<>>
       /\ \E ok \in Outcomes(TRUE) :
            IF ok
            THEN /\ drivers' = drivers \cup {d}
                 /\ playwright' = d
                 /\ Launch(t, r, d)
                 /\ UNCHANGED <<browser, context, tabs, current_tab_id,
                                browsers, contexts, pages>>
            ELSE /\ NewTabRaise(t, r, EngineFault)
                 /\ UNCHANGED <<sessVars, engineVars>>
       /\ UNCHANGED <<call, shot, pdf, scenario, browser_type, timeout, tools, assigned>>

\* <engine>.launch(headless=...) completed.
browser_launched(t) ==
    LET r == task[t]
        b == FreshBrowser
    IN /\ r.pc = "launch"
       /\ out = <<>>
       /\ \E ok \in Outcomes(r.target \in drivers) :
            IF ok
            THEN /\ browsers' = browsers \cup {[id |-> b, driver |-> r.target]}
                 /\ browser' = b
                 /\ Await(t, r, "new_context", b)
                 /\ UNCHANGED <<playwright, context, tabs, current_tab_id,
                                drivers, contexts, pages>>
            ELSE /\ NewTabRaise(t, r, EngineFault)
                 /\ UNCHANGED <<sessVars, engineVars>>
       /\ UNCHANGED <<call, shot, pdf, scenario, browser_type, timeout, tools, assigned>>

\* browser.new_context(viewport=...) completed; start returns to new_tab.
context_created(t) ==
    LET r == task[t]
        c == r.target
    IN /\ r.pc = "new_context"
       /\ out = <<>>
       /\ \E ok \in Outcomes(r.target \in Ids(browsers)) :
            IF ok
            THEN /\ contexts' = contexts \cup {c}
                 /\ context' = c
                 /\ Await(t, r, "new_page", c)
                 /\ UNCHANGED <<playwright, browser, tabs, current_tab_id,
                                drivers, browsers, pages>>
            ELSE /\ NewTabRaise(t, r, EngineFault)
                 /\ UNCHANGED <<sessVars, engineVars>>
       /\ UNCHANGED <<call, shot, pdf, scenario, browser_type, timeout, tools, assigned>>

----------------------------------------------------------------------------
\* BrowserManager.new_tab, after its engine calls.

\* The url new_tab was called with: _new_tab passes args.get("url"),
\* get_current_tab passes none.
NewTabUrl(r) == IF r.name = "browser_tab_new" THEN r.args.url ELSE Absent

\* context.new_page() completed: the tab is named, registered, made current.
page_created(t) ==
    LET r == task[t]
        tab == Tab(Page(r.target, r.target), NextTabId(tabs))
    IN /\ r.pc = "new_page"
       /\ out = <<>>
       /\ \E ok \in Outcomes(r.target \in contexts) :
            IF ok
            THEN /\ pages' = pages \cup {tab.page.id}
                 /\ tabs' = SetTab(tabs, tab)
                 /\ current_tab_id' = tab.tab_id
                 /\ assigned' = assigned \cup {tab.tab_id}
                 /\ IF NewTabUrl(r) # Absent
                    THEN Await(t, [r EXCEPT !.tab_id = tab.tab_id], "new_tab_goto",
                               tab.page.id)
                    ELSE NewTabReturn(t, r, tab.tab_id, tabs', current_tab_id')
                 /\ UNCHANGED <<playwright, browser, context, drivers, browsers, contexts>>
            ELSE /\ NewTabRaise(t, r, EngineFault)
                 /\ UNCHANGED <<sessVars, engineVars, assigned>>
       /\ UNCHANGED <<call, shot, pdf, scenario, browser_type, timeout, tools>>

\* A new_tab that takes the tab out of the mapping when its goto fails.
GotoFailedRolledBack(tbs, id) == DelTab(tbs, id)

\* self.tabs after page.goto(url) of new_tab raised: nothing is undone.
GotoFailed(tbs, id) == tbs

\* page.goto(url) of new_tab completed.
new_tab_navigated(t) ==
    LET r == task[t]
    IN /\ r.pc = "new_tab_goto"
       /\ out = <<>>
       /\ \E ok \in Outcomes(r.target \in pages) :
            IF ok
            THEN /\ NewTabReturn(t, r, r.tab_id, tabs, current_tab_id)
                 /\ UNCHANGED tabs
            ELSE /\ NewTabRaise(t, r, EngineFault)
                 /\ tabs' = GotoFailed(tabs, r.tab_id)
       /\ UNCHANGED <<call, shot, pdf, scenario, browser_type, timeout, tools, playwright, browser,
                      context, current_tab_id, engineVars, assigned>>

----------------------------------------------------------------------------
\* NavigationTools._navigate, after its engine calls.

\* tab.page.goto(url, wait_until=...) completed.
navigated(t) ==
    LET r == task[t]
    IN /\ r.pc = "goto"
       /\ out = <<>>
       /\ \E ok \in Outcomes(r.target \in pages) :
            IF ok
            THEN Await(t, r, "get_title", r.target)
            ELSE Return(t, r, ToolResult(<<"Navigation failed: ", EngineFault>>, TRUE))
       /\ UNCHANGED <<call, shot, pdf, scenario, browser_type, timeout, tools, sessVars, engineVars, assigned>>

\* tab.get_title() completed.
titled(t) ==
    LET r == task[t]
    IN /\ r.pc = "get_title"
       /\ out = <<>>
       /\ \E ok \in Outcomes(r.target \in pages) :
            IF ok
            THEN Return(t, r, ToolResult(<<"Navigated to: ", r.args.url, "Page title: ",
                                           "title", "Current URL: ", r.args.url>>, FALSE))
            ELSE Return(t, r, ToolResult(<<"Navigation failed: ", EngineFault>>, TRUE))
       /\ UNCHANGED <<call, shot, pdf, scenario, browser_type, timeout, tools, sessVars, engineVars, assigned>>

----------------------------------------------------------------------------
\* BrowserManager.close_tab and switch_tab, after their engine call.

\* page.close() completed: the entry is deleted, the current slot updated.
page_closed(t) ==
    LET r == task[t]
    IN /\ r.pc = "page_close"
       /\ out = <<>>
       /\ \E ok \in Outcomes(TRUE) :
            IF ok
            THEN /\ pages' = pages \ {r.target}
                 /\ IF HasTab(tabs, r.tab_id)
                    THEN /\ tabs' = DelTab(tabs, r.tab_id)
                         /\ current_tab_id' = PromoteCurrent(tabs', current_tab_id, r.tab_id)
                         /\ Return(t, r, ToolResult(<<"Tab closed: ", r.tab_id>>, FALSE))
                    ELSE /\ Return(t, r, ToolResult(<<"Close tab failed: ",
                                                      KeyErrorMsg(r.tab_id)>>, TRUE))
                         /\ UNCHANGED <<tabs, current_tab_id>>
            ELSE /\ Return(t, r, ToolResult(<<"Close tab failed: ", EngineFault>>, TRUE))
                 /\ UNCHANGED <<pages, tabs, current_tab_id>>
       /\ UNCHANGED <<call, shot, pdf, scenario, browser_type, timeout, tools, playwright, browser, context,
                      drivers, browsers, contexts, assigned>>

\* page.bring_to_front() completed.
brought_to_front(t) ==
    LET r == task[t]
    IN /\ r.pc = "bring_to_front"
       /\ out = <<>>
       /\ \E ok \in Outcomes(r.target \in pages) :
            IF ok
            THEN Return(t, r, ToolResult(<<"Switched to tab: ", r.tab_id>>, FALSE))
            ELSE Return(t, r, ToolResult(<<"Switch tab failed: ", EngineFault>>, TRUE))
       /\ UNCHANGED <<call, shot, pdf, scenario, browser_type, timeout, tools, sessVars, engineVars, assigned>>

----------------------------------------------------------------------------
\* BrowserManager.stop, called from the finally of PlaywrightMCPServer.run.
\* Here it may be called whenever a task is free, also while another
\* invocation is suspended, and the session may be used again afterwards.

\* A stop() that stops the driver first and closes nothing else.
StopDriverFirst(t, r, stage) ==
    IF stage <= 1 /\ playwright # 0
    THEN Await(t, r, "playwright_stop", playwright) /\ UNCHANGED sessVars
    ELSE /\ context' = 0
         /\ browser' = 0
         /\ playwright' = 0
         /\ tabs' = <<>>
         /\ current_tab_id' = None
         /\ Stopped(t, r, <<>>)

\* A stop() that drops its three handles and keeps the tabs it tracked.
StopKeepingTabs(t, r, stage) ==
    IF stage <= 1 /\ context # 0
    THEN Await(t, r, "context_close", context) /\ UNCHANGED sessVars
    ELSE IF stage <= 2 /\ browser # 0
    THEN Await(t, r, "browser_close", browser) /\ UNCHANGED sessVars
    ELSE IF stage <= 3 /\ playwright # 0
    THEN Await(t, r, "playwright_stop", playwright) /\ UNCHANGED sessVars
    ELSE /\ context' = 0
         /\ browser' = 0
         /\ playwright' = 0
         /\ UNCHANGED <<tabs, current_tab_id>>
         /\ Stopped(t, r, <<>>)

\* stop(), from the test of the handle numbered stage (1 context, 2 browser,
\* 3 playwright) to its next engine call, or to the clearing of the fields.
StopFrom(t, r, stage) ==
    IF stage <= 1 /\ context # 0
    THEN Await(t, r, "context_close", context) /\ UNCHANGED sessVars
    ELSE IF stage <= 2 /\ browser # 0
    THEN Await(t, r, "browser_close", browser) /\ UNCHANGED sessVars
    ELSE IF stage <= 3 /\ playwright # 0
    THEN Await(t, r, "playwright_stop", playwright) /\ UNCHANGED sessVars
    ELSE /\ context' = 0
         /\ browser' = 0
         /\ playwright' = 0
         /\ tabs' = <<>>
         /\ current_tab_id' = None
         /\ Stopped(t, r, <<>>)

stop(t) ==
    /\ t \in scenario.tasks
    /\ task[t].pc = "idle"
    /\ out = <<>>
    /\ StopFrom(t, [IdleTask EXCEPT !.name = "shutdown"], 1)
    /\ UNCHANGED <<call, shot, pdf, scenario, browser_type, timeout, tools, engineVars, assigned>>

\* context.close() completed.
context_closed(t) ==
    LET r == task[t]
        cs == {r.target}
    IN /\ r.pc = "context_close"
       /\ out = <<>>
       /\ \E ok \in Outcomes(TRUE) :
            IF ok
            THEN /\ contexts' = contexts \ cs
                 /\ pages' = pages \ PagesOf(cs)
                 /\ StopFrom(t, r, 2)
            ELSE /\ Stopped(t, r, <<EngineFault>>)
                 /\ UNCHANGED <<sessVars, contexts, pages>>
       /\ UNCHANGED <<call, shot, pdf, scenario, browser_type, timeout, tools, drivers, browsers, assigned>>

\* browser.close() completed.
browser_closed(t) ==
    LET r == task[t]
        bs == {b \in browsers : b.id = r.target}
    IN /\ r.pc = "browser_close"
       /\ out = <<>>
       /\ \E ok \in Outcomes(TRUE) :
            IF ok
            THEN /\ browsers' = browsers \ bs
                 /\ contexts' = contexts \ ContextsOf(bs)
                 /\ pages' = pages \ PagesOf(ContextsOf(bs))
                 /\ StopFrom(t, r, 3)
            ELSE /\ Stopped(t, r, <<EngineFault>>)
                 /\ UNCHANGED <<sessVars, browsers, contexts, pages>>
       /\ UNCHANGED <<call, shot, pdf, scenario, browser_type, timeout, tools, drivers, assigned>>

\* playwright.stop() completed.
playwright_stopped(t) ==
    LET r == task[t]
        bs == BrowsersOf({r.target})
    IN /\ r.pc = "playwright_stop"
       /\ out = <<>>
       /\ \E ok \in Outcomes(TRUE) :
            IF ok
            THEN /\ drivers' = drivers \ {r.target}
                 /\ browsers' = browsers \ bs
                 /\ contexts' = contexts \ ContextsOf(bs)
                 /\ pages' = pages \ PagesOf(ContextsOf(bs))
                 /\ StopFrom(t, r, 4)
            ELSE /\ Stopped(t, r, <<EngineFault>>)
                 /\ UNCHANGED <<sessVars, engineVars>>
       /\ UNCHANGED <<call, shot, pdf, scenario, browser_type, timeout, tools, assigned>>

----------------------------------------------------------------------------
\* The answer of the step just taken goes to the caller: the content list to
\* the protocol layer, the outcome of stop() to run().
respond ==
    /\ out # <<>>
    /\ out' = <<>>
    /\ UNCHANGED <<call, shot, pdf, scenario, browser_type, timeout, tools, sessVars, engineVars, task, assigned>>

----------------------------------------------------------------------------
Next ==
    \/ \E t \in Tasks : \E i \in Invocations : handle_call_tool(t, i.name, i.args)
    \/ \E t \in Tasks : playwright_started(t)
    \/ \E t \in Tasks : browser_launched(t)
    \/ \E t \in Tasks : context_created(t)
    \/ \E t \in Tasks : page_created(t)
    \/ \E t \in Tasks : new_tab_navigated(t)
    \/ \E t \in Tasks : navigated(t)
    \/ \E t \in Tasks : titled(t)
    \/ \E t \in Tasks : page_closed(t)
    \/ \E t \in Tasks : brought_to_front(t)
    \/ \E t \in Tasks : stop(t)
    \/ \E t \in Tasks : context_closed(t)
    \/ \E t \in Tasks : browser_closed(t)
    \/ \E t \in Tasks : playwright_stopped(t)
    \/ respond

Spec == Init /\ [][Next]_<<vars, call, shot, pdf>>

----------------------------------------------------------------------------
\* The handlers of the four categories, as far as their arguments go: the
\* keys read with args[key] before the handler's own try (before) and inside
\* it (inside), where get_current_tab is awaited (outside the try, inside
\* it, or not at all), the first piece of the text returned on success (ok)
\* and of the text the handler's own except builds (fail; accents left out).

NavigationHandlers ==
    << [name |-> "browser_navigate", before |-> <<"url">>, inside |-> <<>>,
        tab |-> "outside", ok |-> "Navigated to: ", fail |-> "Navigation failed: "],
       [name |-> "browser_navigate_back", before |-> <<>>, inside |-> <<>>,
        tab |-> "outside", ok |-> "Navigated back to: ", fail |-> "Cannot go back: "],
       [name |-> "browser_navigate_forward", before |-> <<>>, inside |-> <<>>,
        tab |-> "outside", ok |-> "Navigated forward to: ", fail |-> "Cannot go forward: "] >>

InteractionHandlers ==
    << [name |-> "browser_click", before |-> <<"selector">>, inside |-> <<>>,
        tab |-> "outside", ok |-> "Clicked on: ", fail |-> "Click failed: "],
       [name |-> "browser_type", before |-> <<"selector", "text">>, inside |-> <<>>,
        tab |-> "outside", ok |-> "Typed '", fail |-> "Typing failed: "],
       [name |-> "browser_fill", before |-> <<"selector", "value">>, inside |-> <<>>,
        tab |-> "outside", ok |-> "Filled '", fail |-> "Fill failed: "],
       [name |-> "browser_select_option", before |-> <<"selector", "value">>, inside |-> <<>>,
        tab |-> "outside", ok |-> "Selected '", fail |-> "Selection failed: "] >>

CaptureHandlers ==
    << [name |-> "browser_screenshot", before |-> <<>>, inside |-> <<>>,
        tab |-> "inside", ok |-> "Screenshot of ", fail |-> "Screenshot failed: "],
       [name |-> "browser_screenshot_pages", before |-> <<>>, inside |-> <<>>,
        tab |-> "inside", ok |-> "Page-by-page screenshots captured:",
        fail |-> "Page screenshots failed: "],
       [name |-> "browser_get_text", before |-> <<>>, inside |-> <<>>,
        tab |-> "outside", ok |-> "Text from ", fail |-> "Text extraction failed: "],
       [name |-> "browser_get_html", before |-> <<>>, inside |-> <<>>,
        tab |-> "outside", ok |-> "HTML from ", fail |-> "HTML extraction failed: "],
       [name |-> "browser_console_messages", before |-> <<>>, inside |-> <<>>,
        tab |-> "outside", ok |-> "No console messages", fail |-> "Console messages failed: "],
       [name |-> "browser_download_pdf", before |-> <<>>, inside |-> <<>>,
        tab |-> "inside", ok |-> "Aucun PDF trouve sur cette page",
        fail |-> "Erreur lors du telechargement des PDFs: "],
       [name |-> "browser_download_pdf_with_curl", before |-> <<>>, inside |-> <<"url">>,
        tab |-> "none", ok |-> "PDF telecharge avec curl:",
        fail |-> "Erreur lors du telechargement avec curl: "] >>

UtilityHandlers ==
    << [name |-> "browser_wait", before |-> <<>>, inside |-> <<>>,
        tab |-> "outside", ok |-> "Waited ", fail |-> "Wait failed: "],
       [name |-> "browser_reload", before |-> <<>>, inside |-> <<>>,
        tab |-> "outside", ok |-> "Page reloaded: ", fail |-> "Reload failed: "],
       [name |-> "browser_scroll", before |-> <<"direction">>, inside |-> <<>>,
        tab |-> "outside", ok |-> "Scrolled ", fail |-> "Scroll failed: "],
       [name |-> "browser_evaluate", before |-> <<"code">>, inside |-> <<>>,
        tab |-> "outside", ok |-> "JavaScript result: ",
        fail |-> "JavaScript execution failed: "],
       [name |-> "browser_tab_new", before |-> <<>>, inside |-> <<>>,
        tab |-> "none", ok |-> "New tab opened: ", fail |-> "New tab failed: "],
       [name |-> "browser_tab_close", before |-> <<>>, inside |-> <<>>,
        tab |-> "none", ok |-> "Tab closed: ", fail |-> "Close tab failed: "],
       [name |-> "browser_tab_list", before |-> <<>>, inside |-> <<>>,
        tab |-> "none", ok |-> "No tabs open", fail |-> "List tabs failed: "],
       [name |-> "browser_tab_switch", before |-> <<"tab_id">>, inside |-> <<>>,
        tab |-> "none", ok |-> "Switched to tab: ", fail |-> "Switch tab failed: "] >>

Handlers == NavigationHandlers \o InteractionHandlers \o CaptureHandlers \o UtilityHandlers

\* tool.execute of the registered tool nm
HandlerOf(nm) == Handlers[CHOOSE i \in 1..Len(Handlers) : Handlers[i].name = nm]

\* input_schema["required"] of the registered tool nm
RequiredOf(reg, nm) ==
    LET info == reg[CHOOSE i \in 1..Len(reg) : reg[i].name = nm]
    IN {info.required[k] : k \in 1..Len(info.required)}

\* The keys read with args[key], in order, that args a does not hold.
Missing(keys, a) == SelectSeq(keys, LAMBDA k : k \notin a)

\* The wait conditions _wait looks for with args.get.
WaitConditions == {"time", "selector", "text"}

\* The argument dicts a client sends to tool nm, as the set of their keys:
\* any part of the required keys, with or without one optional key.
OptionalKey(nm) ==
    CASE nm = "browser_wait" -> "time"
      [] nm = "browser_download_pdf" -> "folder"
      [] nm = "browser_download_pdf_with_curl" -> "filename"
      [] OTHER -> "timeout"

\* browser_wait is sent with any of its four keys.
OptionalKeys(nm) ==
    IF nm = "browser_wait" THEN WaitConditions \cup {"timeout"} ELSE {OptionalKey(nm)}

ArgKeys(reg, nm) ==
    IF IsRegistered(reg, nm) THEN SUBSET (RequiredOf(reg, nm) \cup OptionalKeys(nm))
    ELSE {{}}

ToolNames == {ToolRegistry[i].name : i \in 1..Len(ToolRegistry)} \cup {"invalid_tool"}

Calls == UNION {[name : {nm}, args : ArgKeys(ToolRegistry, nm)] : nm \in ToolNames}

\* The state of the session while only the dispatcher is looked at.
DispatchInit ==
    /\ scenario = [tasks |-> {}, engines |-> 0, faults |-> TRUE]
    /\ browser_type = "chromium"
    /\ timeout \in ConfiguredTimeouts
    /\ tools = ToolRegistry
    /\ playwright = 0
    /\ browser = 0
    /\ context = 0
    /\ tabs = <<>>
    /\ current_tab_id = None
    /\ drivers = {}
    /\ browsers = {}
    /\ contexts = {}
    /\ pages = {}
    /\ task = [t \in Tasks |-> IdleTask]
    /\ out = <<>>
    /\ assigned = {}
    /\ call = IdleCall
    /\ shot = IdleShot(0, 0)
    /\ pdf = IdlePdf(<<"page">>, 1)

\* The handler returned res to execute_tool, which returns it unchanged.
Returned(c, res) == call' = [c EXCEPT !.pc = "done", !.result = <<res>>]

\* execute_tool awaits tool_info.execute(arguments).
Invoke(c) == [c EXCEPT !.invoked = @ + 1]

\* A dispatcher that runs the handler a second time after a fault.
OnExceptionRetry(c) == Invoke(c)

\* execute_tool, except Exception: the call as the except branch leaves it.
OnException(c) == c

\* The handler raised msg into execute_tool's except.
Raised(c, msg) ==
    call' = [OnException(c) EXCEPT !.pc = "done",
                                   !.result = <<ErrorResult(c.name, msg)>>,
                                   !.raised = <<msg>>]

\* The handler's own except caught msg.
Failed(c, msg) == Returned(c, ToolResult(<<HandlerOf(c.name).fail, msg>>, TRUE))

\* The tools whose handlers pass timeout=timeout to their engine call.
TimeoutTools == {"browser_click", "browser_wait"}

\* _click, _wait: timeout = args.get("timeout", 30000)
ArgsGetTimeout(a) == IF "timeout" \in a THEN ArgTimeout ELSE 30000

\* The timeout the engine call of the handler runs with: the one passed to
\* it, else the default set on the context with set_default_timeout.
EngineTimeout(nm, a) == IF nm \in TimeoutTools THEN ArgsGetTimeout(a) ELSE timeout

\* The handler is inside its try with the tab, if it uses one, at hand.
InTry(c) ==
    LET h == HandlerOf(c.name)
        miss == Missing(h.inside, c.args)
    IN IF miss # <<>> THEN Failed(c, KeyErrorMsg(miss[1]))
       ELSE call' = [c EXCEPT !.pc = "body", !.timeout = EngineTimeout(c.name, c.args)]

\* dict d with key k set to v.
WithKey(d, k, v) == [x \in DOMAIN d \cup {k} |-> IF x = k THEN v ELSE d[x]]

\* handle_list_tools: schema = tool_info.input_schema.copy(), with the fields
\* it ensures.
EnsuredSchema(input_schema) ==
    LET typed == IF "type" \in DOMAIN input_schema THEN input_schema
                 ELSE WithKey(input_schema, "type", "object")
    IN IF "properties" \notin DOMAIN typed /\ typed["type"] = "object"
       THEN WithKey(typed, "properties", {})
       ELSE typed

\* A listing that leaves the description out.
tool_dict_bare(tool_name, tool_info) ==
    [name |-> tool_name, inputSchema |-> EnsuredSchema(tool_info.input_schema)]

\* handle_list_tools: tool_dict
tool_dict(tool_name, tool_info) ==
    [name |-> tool_name, description |-> tool_info.description,
     inputSchema |-> EnsuredSchema(tool_info.input_schema)]

\* handle_list_tools: tools_list after the loop over registry_tools.items()
tools_list(reg) == [i \in 1..Len(reg) |-> tool_dict(reg[i].name, reg[i])]

\* A registry that creates an entry for every name it is asked for.
RegistryDefaulting(reg, nm) ==
    IF IsRegistered(reg, nm) THEN reg
    ELSE Append(reg, [name |-> nm, required |-> <<>>, description |-> "",
                      input_schema |-> [type |-> "object", properties |-> {}]])

\* self.tools after execute_tool has looked tool_name up in it.
RegistryLookedUp(reg, nm) == reg

\* Everything but the registry and the call.
dispatchFrame ==
    <<scenario, browser_type, timeout, sessVars, engineVars, task, out, assigned, shot,
      pdf>>

\* handle_list_tools: the list goes back to the client as the result.
handle_list_tools ==
    /\ call.pc = "idle"
    /\ call' = [IdleCall EXCEPT !.pc = "done", !.name = "tools/list",
                                !.result = tools_list(tools)]
    /\ UNCHANGED <<vars, shot, pdf>>

\* execute_tool up to the handler's first await.
execute_tool(nm, a) ==
    LET c == [IdleCall EXCEPT !.name = nm, !.args = a]
    IN /\ call.pc = "idle"
       /\ IF ~IsRegistered(tools, nm)
          THEN Returned(c, NotFoundResult(nm))
          ELSE LET h == HandlerOf(nm)
                   miss == Missing(h.before, a)
                   e == Invoke(c)
               IN IF miss # <<>> THEN Raised(e, KeyErrorMsg(miss[1]))
                  ELSE IF h.tab = "none" THEN InTry(e)
                  ELSE call' = [e EXCEPT !.pc = "get_current_tab"]
       /\ tools' = RegistryLookedUp(tools, nm)
       /\ UNCHANGED dispatchFrame

\* get_current_tab returned the tab, or raised.
tab_returned ==
    /\ call.pc = "get_current_tab"
    /\ \E ok \in BOOLEAN :
         IF ok THEN InTry(call)
         ELSE IF HandlerOf(call.name).tab = "outside" THEN Raised(call, EngineFault)
         ELSE Failed(call, EngineFault)
    /\ UNCHANGED <<vars, shot, pdf>>

\* The engine work of the handler's try block completed, or raised.
body_returned ==
    /\ call.pc = "body"
    /\ \E ok \in BOOLEAN :
         IF ~ok THEN Failed(call, EngineFault)
         ELSE IF call.name = "browser_wait" /\ call.args \cap WaitConditions = {}
         THEN Returned(call, ToolResult(<<"No wait condition specified">>, TRUE))
         ELSE Returned(call, ToolResult(<<HandlerOf(call.name).ok>>, FALSE))
    /\ UNCHANGED <<vars, shot, pdf>>

\* test_forced_error: the names the replaced dispatcher raises for, and
\* str(e) of what it raises.
ForcedErrors == {"force_error"}
ForcedErrorMsg == "This is a test error"

\* The dispatcher call itself raised: mock_execute, for a forced name.
execute_tool_raised(nm) ==
    /\ call.pc = "idle"
    /\ call' = [IdleCall EXCEPT !.pc = "raised", !.name = nm, !.exc = <<ForcedErrorMsg>>]
    /\ UNCHANGED <<vars, shot, pdf>>

\* handle_call_tool: return result.content
CallToolReturn(c) == [c EXCEPT !.pc = "answered", !.response = <<c.result[1].content>>]

\* A protocol handler that lets the dispatcher's exception through.
CallToolReraise(c, msg) == [c EXCEPT !.pc = "answered", !.escaped = <<msg>>]

\* handle_call_tool, except Exception
CallToolExcept(c, msg) ==
    [c EXCEPT !.pc = "answered",
              !.response = <<<<TextContent(<<"Error executing tool '", c.name, "': ", msg>>)>>>>]

\* handle_call_tool after its await of execute_tool.
call_tool_returned ==
    /\ \/ call.pc = "done" /\ call.name # "tools/list"
       \/ call.pc = "raised"
    /\ call' = IF call.exc = <<>> THEN CallToolReturn(call)
               ELSE CallToolExcept(call, call.exc[1])
    /\ UNCHANGED <<vars, shot, pdf>>

\* The protocol layer handed the answer to the client.
call_answered ==
    /\ \/ call.pc = "answered"
       \/ call.pc = "done" /\ call.name = "tools/list"
    /\ call' = IdleCall
    /\ UNCHANGED <<vars, shot, pdf>>

DispatchNext ==
    \/ \E c \in Calls : execute_tool(c.name, c.args)
    \/ handle_list_tools
    \/ tab_returned
    \/ body_returned
    \/ \E nm \in ForcedErrors : execute_tool_raised(nm)
    \/ call_tool_returned
    \/ call_answered

DispatchSpec == DispatchInit /\ [][DispatchNext]_<<vars, call, shot, pdf>>

----------------------------------------------------------------------------
\* CaptureTools._screenshot_pages on one page of the engine: the document's
\* height and the window's scroll offset are the page's state, the handler's
\* locals carry their source names.  Every await on the engine may raise;
\* each action completes the await the handler is suspended in.

\* Python's min and max of two integers.
Min(a, b) == IF a <= b THEN a ELSE b

Max(a, b) == IF a >= b THEN a ELSE b

Abs(n) == IF n >= 0 THEN n ELSE -n

\* int(n / d) for d # 0: true division, then truncation towards zero.
IntTrunc(n, d) ==
    IF (n >= 0) = (d > 0) THEN Abs(n) \div Abs(d) ELSE -(Abs(n) \div Abs(d))

\* A tile count that forgets to round up.
num_pages_floor(page_height, effective_height, max_pages) ==
    Min(max_pages, IntTrunc(page_height, effective_height))

\* num_pages = min(max_pages, int((page_height + effective_height - 1) / effective_height))
num_pages(page_height, effective_height, max_pages) ==
    Min(max_pages, IntTrunc(page_height + effective_height - 1, effective_height))

\* window.scrollTo(0, y) on a document of height h: the engine keeps the
\* offset between 0 and the document's height less the window's.
MaxScroll(h) == Max(0, h - InnerHeight)

ScrollTo(h, y) == Min(Max(0, y), MaxScroll(h))

\* An except branch that raises again without scrolling back.
OnErrorScrollKept(s) == s.scrollY

\* The except branch of the tile loop: window.scrollTo(0, original_scroll).
OnErrorScroll(s) == ScrollTo(s.height, s.original_scroll)

\* The overlaps a client asks for: below, at and above the tile height MaxTile.
MaxOverlap == 4

\* The pages the engine may show: a document and a scroll offset within it.
CaptureInit ==
    /\ shot \in {IdleShot(h, y) : h \in 0..MaxHeight, y \in 0..MaxHeight}
    /\ shot.scrollY <= MaxScroll(shot.height)
    /\ call = IdleCall
    /\ pdf = IdlePdf(<<"page">>, 1)
    /\ scenario = [tasks |-> {}, engines |-> 0, faults |-> TRUE]
    /\ browser_type = "chromium"
    /\ timeout = DefaultTimeout
    /\ tools = ToolRegistry
    /\ playwright = 0
    /\ browser = 0
    /\ context = 0
    /\ tabs = <<>>
    /\ current_tab_id = None
    /\ drivers = {}
    /\ browsers = {}
    /\ contexts = {}
    /\ pages = {}
    /\ task = [t \in Tasks |-> IdleTask]
    /\ out = <<>>
    /\ assigned = {}

\* The outer except: the handler returns an error result.
ShotFailed(s, msg) ==
    shot' = [s EXCEPT !.pc = "done", !.exc = <<>>,
                      !.result = <<ToolResult(<<"Page screenshots failed: ", msg>>, TRUE)>>]

\* An await before the tile loop's try raised.
ShotRaised(s, at) == ShotFailed([s EXCEPT !.fault_at = at], EngineFault)

\* An await inside the tile loop's try raised: its except runs the restoring
\* scroll next.
LoopRaised(s, at) ==
    shot' = [s EXCEPT !.pc = "restore_on_error", !.exc = <<EngineFault>>,
                      !.fault_at = IF s.fault_at = "" THEN at ELSE s.fault_at]

\* _screenshot_pages(args), up to await get_current_tab().
_screenshot_pages(vh, ov, mp) ==
    /\ shot.pc = "idle"
    /\ shot' = [IdleShot(shot.height, shot.scrollY) EXCEPT
                  !.pc = "get_current_tab", !.viewport_height = vh,
                  !.overlap = ov, !.max_pages = mp]
    /\ UNCHANGED <<vars, call, pdf>>

\* get_current_tab returned; the folder is made; scrollHeight is asked for.
shot_tab_returned ==
    /\ shot.pc = "get_current_tab"
    /\ \E ok \in BOOLEAN :
         IF ok THEN shot' = [shot EXCEPT !.pc = "scrollHeight"]
         ELSE ShotRaised(shot, "get_current_tab")
    /\ UNCHANGED <<vars, call, pdf>>

\* page_height = await evaluate("document.documentElement.scrollHeight")
height_evaluated ==
    /\ shot.pc = "scrollHeight"
    /\ \E ok \in BOOLEAN :
         IF ok THEN shot' = [shot EXCEPT !.pc = "innerWidth", !.page_height = shot.height]
         ELSE ShotRaised(shot, "scrollHeight")
    /\ UNCHANGED <<vars, call, pdf>>

\* viewport_width = await evaluate("window.innerWidth"); then the tile count.
width_evaluated ==
    /\ shot.pc = "innerWidth"
    /\ \E ok \in BOOLEAN :
         IF ~ok THEN ShotRaised(shot, "innerWidth")
         ELSE LET e == shot.viewport_height - shot.overlap
              IN IF e = 0
                 THEN ShotFailed([shot EXCEPT !.effective_height = e],
                                 "float division by zero")
                 ELSE shot' = [shot EXCEPT
                                 !.pc = "pageYOffset", !.effective_height = e,
                                 !.num_pages = num_pages(shot.page_height, e, shot.max_pages)]
    /\ UNCHANGED <<vars, call, pdf>>

\* original_scroll = await evaluate("window.pageYOffset"); the try begins.
offset_evaluated ==
    /\ shot.pc = "pageYOffset"
    /\ \E ok \in BOOLEAN :
         IF ok THEN shot' = [shot EXCEPT !.pc = "scroll_top",
                                         !.original_scroll = shot.scrollY]
         ELSE ShotRaised(shot, "pageYOffset")
    /\ UNCHANGED <<vars, call, pdf>>

\* await evaluate("window.scrollTo(0, 0)")
top_scrolled ==
    /\ shot.pc = "scroll_top"
    /\ \E ok \in BOOLEAN :
         IF ok THEN shot' = [shot EXCEPT !.pc = "top_timeout",
                                         !.scrollY = ScrollTo(shot.height, 0)]
         ELSE LoopRaised(shot, "scroll_top")
    /\ UNCHANGED <<vars, call, pdf>>

\* The loop's head: the next tile, or the restoring scroll after the last.
LoopHead(s, n) ==
    IF n < s.num_pages
    THEN shot' = [s EXCEPT !.pc = "scroll", !.page_num = n]
    ELSE shot' = [s EXCEPT !.pc = "restore"]

\* await wait_for_timeout(100) after the scroll to the top.
top_waited ==
    /\ shot.pc = "top_timeout"
    /\ \E ok \in BOOLEAN :
         IF ok THEN LoopHead(shot, 0) ELSE LoopRaised(shot, "top_timeout")
    /\ UNCHANGED <<vars, call, pdf>>

\* await evaluate(f"window.scrollTo(0, {scroll_y})")
tile_scrolled ==
    /\ shot.pc = "scroll"
    /\ \E ok \in BOOLEAN :
         IF ok
         THEN shot' = [shot EXCEPT
                         !.pc = "timeout",
                         !.scroll_y = shot.page_num * shot.effective_height,
                         !.scrollY = ScrollTo(shot.height,
                                              shot.page_num * shot.effective_height)]
         ELSE LoopRaised(shot, "scroll")
    /\ UNCHANGED <<vars, call, pdf>>

\* A clip that reaches to the end of the document.
ClipHeightToEnd(viewport_height, page_height, scroll_y) == page_height - scroll_y

\* screenshot_options["clip"]["height"]
ClipHeight(viewport_height, page_height, scroll_y) ==
    Min(viewport_height, page_height - scroll_y)

\* await wait_for_timeout(100) of a tile; then the screenshot options.
tile_waited ==
    /\ shot.pc = "timeout"
    /\ \E ok \in BOOLEAN :
         IF ok THEN shot' = [shot EXCEPT
                               !.pc = "screenshot",
                               !.clip_height = ClipHeight(shot.viewport_height,
                                                          shot.page_height, shot.scroll_y)]
         ELSE LoopRaised(shot, "timeout")
    /\ UNCHANGED <<vars, call, pdf>>

\* The tiles returned inline: the first InlineLimit of them.
InlineLimit == 3

\* A loop that returns every tile inline.
KeepInlineAll(screenshots, page_num) == Append(screenshots, ImageContent(page_num))

\* if page_num < 3: screenshots.append(ImageContent(...))
KeepInline(screenshots, page_num) ==
    IF page_num < InlineLimit THEN Append(screenshots, ImageContent(page_num))
    ELSE screenshots

\* await page.screenshot(...): the tile is written (a failed write takes the
\* path of a failed screenshot) and the loop goes on.
tile_captured ==
    /\ shot.pc = "screenshot"
    /\ \E ok \in BOOLEAN :
         IF ok THEN LoopHead([shot EXCEPT !.filenames = @ + 1,
                                         !.screenshots = KeepInline(@, shot.page_num)],
                            shot.page_num + 1)
         ELSE LoopRaised(shot, "screenshot")
    /\ UNCHANGED <<vars, call, pdf>>

\* The restoring scroll at the end of the try, then the result.
scroll_restored ==
    /\ shot.pc = "restore"
    /\ \E ok \in BOOLEAN :
         IF ok
         THEN shot' = [shot EXCEPT
                         !.pc = "done",
                         !.scrollY = ScrollTo(shot.height, shot.original_scroll),
                         !.result =
                             <<[content |-> <<TextContent(
                                                <<"Page-by-page screenshots captured:",
                                                  "Pages captured: ",
                                                  ToString(shot.num_pages)>>)>>
                                            \o shot.screenshots,
                                is_error |-> FALSE]>>]
         ELSE LoopRaised(shot, "restore")
    /\ UNCHANGED <<vars, call, pdf>>

\* The restoring scroll of the except branch, then raise e; if this scroll
\* raises, its own exception reaches the outer except instead.
scroll_restored_on_error ==
    /\ shot.pc = "restore_on_error"
    /\ \E ok \in BOOLEAN :
         IF ok
         THEN ShotFailed([shot EXCEPT !.scrollY = OnErrorScroll(shot)], shot.exc[1])
         ELSE ShotFailed([shot EXCEPT !.restore_failed = TRUE], EngineFault)
    /\ UNCHANGED <<vars, call, pdf>>

\* The awaits of the tile loop's try block.
LoopAwaits == {"scroll_top", "top_timeout", "scroll", "timeout", "screenshot", "restore"}

\* The handler's task is cancelled while it is suspended: the await raises
\* asyncio.CancelledError, which is no Exception, so neither except branch
\* runs and the error leaves the handler.
shot_cancelled ==
    /\ shot.pc \notin {"idle", "done", "cancelled"}
    /\ shot' = [shot EXCEPT !.pc = "cancelled", !.exc = <<"CancelledError">>,
                            !.cancelled_at = shot.pc]
    /\ UNCHANGED <<vars, call, pdf>>

\* The result, or the cancellation, went back to the caller; the page stays
\* as it is.
shot_answered ==
    /\ shot.pc \in {"done", "cancelled"}
    /\ shot' = IdleShot(shot.height, shot.scrollY)
    /\ UNCHANGED <<vars, call, pdf>>

CaptureNext ==
    \/ \E vh \in 1..MaxTile : \E ov \in 0..MaxOverlap : \E mp \in 0..MaxPages :
         _screenshot_pages(vh, ov, mp)
    \/ shot_tab_returned
    \/ height_evaluated
    \/ width_evaluated
    \/ offset_evaluated
    \/ top_scrolled
    \/ top_waited
    \/ tile_scrolled
    \/ tile_waited
    \/ tile_captured
    \/ scroll_restored
    \/ scroll_restored_on_error
    \/ shot_cancelled
    \/ shot_answered

CaptureSpec == CaptureInit /\ [][CaptureNext]_<<vars, call, shot, pdf>>

----------------------------------------------------------------------------
\* CaptureTools._download_pdf_on_page on one page of the engine: the page's
\* session history is the page's state.  Every await on the engine may
\* raise; each action completes the await the handler is suspended in.

\* The most PDF links the page holds, and the longest history a call starts on.
MaxLinks == 3
MaxHistory == 2

\* The url of the i-th PDF link.
PdfUrl(i) == "pdf_" \o ToString(i)

\* page.goto(url) committed: the entries after the one shown are dropped and
\* the url becomes the last entry, which is shown.
Goto(history, at, url) == Append(SubSeq(history, 1, at), url)

\* page.go_back(): the entry before the one shown, if there is one.
GoBack(at) == IF at > 1 THEN at - 1 ELSE at

\* The pages the engine may show: with or without an entry before the one
\* the handler is called on.
PdfInit ==
    /\ pdf \in {IdlePdf(<<"page">>, 1), IdlePdf(<<"previous", "page">>, 2)}
    /\ call = IdleCall
    /\ shot = IdleShot(0, 0)
    /\ scenario = [tasks |-> {}, engines |-> 0, faults |-> TRUE]
    /\ browser_type = "chromium"
    /\ timeout = DefaultTimeout
    /\ tools = ToolRegistry
    /\ playwright = 0
    /\ browser = 0
    /\ context = 0
    /\ tabs = <<>>
    /\ current_tab_id = None
    /\ drivers = {}
    /\ browsers = {}
    /\ contexts = {}
    /\ pages = {}
    /\ task = [t \in Tasks |-> IdleTask]
    /\ out = <<>>
    /\ assigned = {}

\* The outer except: the handler returns an error result.
PdfFailed(s, msg) ==
    pdf' = [s EXCEPT !.pc = "done",
                     !.result = <<ToolResult(<<"Erreur lors du telechargement des PDFs: ",
                                               msg>>, TRUE)>>]

\* _download_pdf_on_page(args), up to await get_current_tab().
_download_pdf_on_page ==
    /\ pdf.pc = "idle"
    /\ Len(pdf.history) <= MaxHistory
    /\ pdf' = [IdlePdf(pdf.history, pdf.at) EXCEPT !.pc = "get_current_tab"]
    /\ UNCHANGED <<vars, call, shot>>

\* get_current_tab returned; the folder is made; the links are asked for.
pdf_tab_returned ==
    /\ pdf.pc = "get_current_tab"
    /\ \E ok \in BOOLEAN :
         IF ok THEN pdf' = [pdf EXCEPT !.pc = "evaluate"]
         ELSE PdfFailed(pdf, EngineFault)
    /\ UNCHANGED <<vars, call, shot>>

\* The loop's head: the next link's goto, or go_back after the last.
PdfLoopHead(s, n) ==
    IF n < s.pdf_links
    THEN pdf' = [s EXCEPT !.pc = "goto", !.i = n]
    ELSE pdf' = [s EXCEPT !.pc = "go_back"]

\* pdf_links = await tab.page.evaluate(...)
links_evaluated ==
    /\ pdf.pc = "evaluate"
    /\ \E ok \in BOOLEAN : \E n \in 0..MaxLinks :
         IF ~ok THEN PdfFailed(pdf, EngineFault)
         ELSE IF n = 0
         THEN pdf' = [pdf EXCEPT !.pc = "done",
                                 !.result = <<ToolResult(<<"Aucun PDF trouve sur cette page">>,
                                                         FALSE)>>]
         ELSE PdfLoopHead([pdf EXCEPT !.pdf_links = n], 0)
    /\ UNCHANGED <<vars, call, shot>>

\* response = await tab.page.goto(url): it raised and the page stayed, or the
\* navigation committed with a response that is ok or not.
pdf_navigated ==
    /\ pdf.pc = "goto"
    /\ \E outcome \in {"raised", "ok", "not ok"} :
         LET s == [pdf EXCEPT !.history = Goto(pdf.history, pdf.at, PdfUrl(pdf.i + 1)),
                              !.at = pdf.at + 1]
         IN CASE outcome = "raised" ->
                   PdfLoopHead([pdf EXCEPT !.failed_downloads = @ + 1], pdf.i + 1)
              [] outcome = "ok" -> pdf' = [s EXCEPT !.pc = "body"]
              [] outcome = "not ok" ->
                   PdfLoopHead([s EXCEPT !.failed_downloads = @ + 1], pdf.i + 1)
    /\ UNCHANGED <<vars, call, shot>>

\* pdf_content = await response.body(), then the file is written.
pdf_body_read ==
    /\ pdf.pc = "body"
    /\ \E ok \in BOOLEAN :
         IF ok THEN PdfLoopHead([pdf EXCEPT !.downloaded_files = @ + 1], pdf.i + 1)
         ELSE PdfLoopHead([pdf EXCEPT !.failed_downloads = @ + 1], pdf.i + 1)
    /\ UNCHANGED <<vars, call, shot>>

\* await tab.page.go_back(), once, then the result.
went_back ==
    /\ pdf.pc = "go_back"
    /\ \E ok \in BOOLEAN :
         IF ok
         THEN pdf' = [pdf EXCEPT
                        !.pc = "done",
                        !.at = GoBack(pdf.at),
                        !.result = <<ToolResult(<<ToString(pdf.downloaded_files),
                                                  " PDF(s) telecharge(s):",
                                                  ToString(pdf.failed_downloads),
                                                  " echec(s):">>, FALSE)>>]
         ELSE PdfFailed(pdf, EngineFault)
    /\ UNCHANGED <<vars, call, shot>>

\* The result went back to the caller; the page stays as it is.
pdf_answered ==
    /\ pdf.pc = "done"
    /\ pdf' = IdlePdf(pdf.history, pdf.at)
    /\ UNCHANGED <<vars, call, shot>>

PdfNext ==
    \/ _download_pdf_on_page
    \/ pdf_tab_returned
    \/ links_evaluated
    \/ pdf_navigated
    \/ pdf_body_read
    \/ went_back
    \/ pdf_answered

PdfSpec == PdfInit /\ [][PdfNext]_<<vars, call, shot, pdf>>

----------------------------------------------------------------------------
\* Properties of the session, the dispatcher and the protocol handler.

\* The tool invocations the step just taken has answered.
ToolCalls == {o \in {out[i] : i \in 1..Len(out)} : o.op = "call_tool"}

\* The text of the single item of a result.
TextOf(res) == res.content[1].text

HasPiece(res, s) == \E k \in 1..Len(TextOf(res)) : TextOf(res)[k] = s

\* This step is new_tab registering the page it has opened.
PageOpened == pages' # pages /\ pages \subseteq pages'

\* This step is task t being called: it was idle and no other task moved.
Called(t) ==
    /\ task[t].pc = "idle"
    /\ \A u \in Tasks \ {t} : task'[u].pc = task[u].pc

\* C1: in every reachable state, under any interleaving of new_tab,
\* close_tab, switch_tab, get_current_tab and stop, the current-tab id is
\* either unset or a key of the tab mapping.
C1_CurrentTabIsKey == current_tab_id # None => HasTab(tabs, current_tab_id)

\* close_tab has removed tab_1 and tab_2 is open and current.
C1_Witness ==
    /\ \E o \in ToolCalls :
         /\ o.name = "browser_tab_close"
         /\ TextOf(o.result[1]) = <<"Tab closed: ", "tab_1">>
    /\ Keys(tabs) = {"tab_2"}
    /\ current_tab_id = "tab_2"

\* C2: start() is idempotent: a call that finds an engine instance and a
\* context running launches no engine, so no task that entered start() in
\* such a session is waiting for a launch.
C2_StartIsIdempotent ==
    \A t \in Tasks : task[t].sawEngine => task[t].pc # "launch"

\* C3: tab identifiers are never reused: the identifier new_tab gives to the
\* page it registers was never assigned by an earlier new_tab.
C3_IdsNeverReused == [][PageOpened => current_tab_id' \notin assigned]_vars

\* C4: a new_tab whose page creation succeeds adds exactly one entry to the
\* tab mapping and makes it current, and every entry registered before is
\* still there with its identifier and page.
C4_NewTabAddsOneEntry ==
    [][PageOpened =>
         /\ Len(tabs') = Len(tabs) + 1
         /\ \A i \in 1..Len(tabs) : tabs'[i] = tabs[i]
         /\ current_tab_id' = tabs'[Len(tabs')].tab_id]_vars

\* C5: for a name that is not registered execute_tool raises nothing and
\* returns an error result whose single text item contains the name and
\* "not found"; no handler starts an engine call and the session, the
\* engine side and the identifiers assigned stay as they were.
C5_UnknownToolReported ==
    [][\A i \in 1..Len(out') :
         (out'[i].op = "call_tool" /\ ~IsRegistered(tools, out'[i].name)) =>
            /\ out'[i].raised = <<>>
            /\ Len(out'[i].result) = 1
            /\ out'[i].result[1].is_error = TRUE
            /\ Len(out'[i].result[1].content) = 1
            /\ out'[i].result[1].content[1].type = "text"
            /\ HasPiece(out'[i].result[1], out'[i].name)
            /\ HasPiece(out'[i].result[1], "not found")
            /\ \A t \in Tasks : task[t].pc = "idle" => task'[t].pc = "idle"
            /\ UNCHANGED <<sessVars, engineVars, assigned>>]_vars

\* An unknown name was answered while a tab was open.
C5_Witness ==
    /\ \E o \in ToolCalls : o.name = "invalid_tool" /\ o.result[1].is_error
    /\ Len(tabs) > 0

\* C6: when the handler of a registered tool raises, execute_tool returns an
\* error result with exactly one text item, "Error executing <name>:
\* <message>".  The faults are those of class Exception: a missing argument,
\* an unsupported engine selection, a failed engine call.
C6_HandlerFaultReported ==
    \A o \in ToolCalls :
        (IsRegistered(tools, o.name) /\ o.raised # <<>>) =>
            o.result = << [content |-> << [type |-> "text",
                                           text |-> <<"Error executing ", o.name,
                                                      ": ", o.raised[1]>>] >>,
                           is_error |-> TRUE] >>

\* browser_navigate was called without its url.
C6_Witness ==
    \E o \in ToolCalls :
        /\ o.name = "browser_navigate"
        /\ o.raised = <<KeyErrorMsg("url")>>
        /\ o.result[1].is_error

\* C7: the response handle_call_tool hands to the protocol layer has its
\* error indicator set exactly when the tool's result has its error flag set.
C7_ResponseCarriesErrorFlag ==
    \A o \in ToolCalls : o.response[1].isError = o.result[1].is_error

\* C8: get_current_tab run without interleaving.  With a current tab set it
\* returns that tab, and the tab mapping, the current slot and the engine
\* instances are as it found them; with none set it adds exactly one tab and
\* makes it current.  Either way the tab returned is the current one and a
\* key of the tab mapping, with its page, at the return.
C8_CurrentTabAlone ==
    [][\A t \in Tasks :
         (task[t].ret = <<>> /\ task'[t].ret # <<>> /\ task'[t].pre # <<>>) =>
            LET p == task'[t].pre[1]
                got == task'[t].ret[1]
            IN /\ got.tab_id = current_tab_id'
               /\ HasTab(tabs', got.tab_id)
               /\ TabOf(tabs', got.tab_id).page.id = got.page
               /\ IF p.cur # None
                  THEN /\ got.tab_id = p.cur
                       /\ tabs' = p.tabs
                       /\ Ids(browsers') = p.browsers
                  ELSE /\ Len(tabs') = Len(p.tabs) + 1
                       /\ \A i \in 1..Len(p.tabs) : tabs'[i] = p.tabs[i]
                       /\ tabs'[Len(tabs')].tab_id = got.tab_id
                       /\ got.page \in pages']_vars

\* get_current_tab, not interleaved with, has returned the tab it created.
C8_Witness ==
    \E t \in Tasks :
        /\ task[t].ret # <<>>
        /\ task[t].pre # <<>>
        /\ task[t].pre[1].cur = None
        /\ task[t].ret[1].tab_id = current_tab_id

\* C9: two invocations that call get_current_tab on a session with no
\* current tab receive the same tab, and one engine instance and one context
\* were created for them.
C9_ConcurrentCurrentTab ==
    \A t, u \in Tasks :
        (/\ t # u
         /\ task[t].fresh /\ task[t].ret # <<>>
         /\ task[u].fresh /\ task[u].ret # <<>>) =>
            /\ task[t].ret = task[u].ret
            /\ Cardinality(browsers) <= 1
            /\ Cardinality(contexts) <= 1

\* C10: close_tab for an identifier that is not in the tab mapping leaves
\* the mapping and the current slot as they were, raises nothing and reports
\* no error; and a close_tab that succeeded leaves its identifier out of the
\* mapping, so that closing it again is such a call.
C10_CloseAbsentIsNoOp ==
    [][\A t \in Tasks :
         /\ \A i \in 1..Len(out') :
              (/\ Called(t)
               /\ out'[i].op = "call_tool"
               /\ out'[i].name = "browser_tab_close"
               /\ ~HasTab(tabs, IF out'[i].args.tab_id # Absent
                                THEN out'[i].args.tab_id ELSE current_tab_id)) =>
                 /\ UNCHANGED <<tabs, current_tab_id>>
                 /\ out'[i].raised = <<>>
                 /\ out'[i].result[1].is_error = FALSE
         /\ (/\ task[t].pc = "page_close"
             /\ task'[t].pc = "idle"
             /\ out'[1].result[1].is_error = FALSE) =>
                ~HasTab(tabs', task[t].tab_id)]_vars

\* tab_2, never assigned, was closed while tab_1 was open.
C10_Witness ==
    /\ \E o \in ToolCalls :
         /\ o.name = "browser_tab_close"
         /\ o.args.tab_id = "tab_2"
         /\ TextOf(o.result[1]) = <<"Tab closed: ", "tab_2">>
    /\ assigned = {"tab_1"}
    /\ Keys(tabs) = {"tab_1"}
    /\ current_tab_id = "tab_1"

\* This step is close_tab of task t deleting its entry after page.close().
TabDeleted(t) ==
    /\ task[t].pc = "page_close"
    /\ task'[t].pc = "idle"
    /\ HasTab(tabs, task[t].tab_id)
    /\ out'[1].result[1].is_error = FALSE

\* C11: close_tab for a registered identifier removes exactly that entry,
\* every other entry staying as it was and in its place; if the identifier
\* was current, the current slot becomes a key of what remains, or None when
\* nothing remains; otherwise the current slot is unchanged.
C11_CloseRemovesExactlyOne ==
    [][\A t \in Tasks :
         TabDeleted(t) =>
            LET id == task[t].tab_id
            IN /\ Keys(tabs') = Keys(tabs) \ {id}
               /\ Len(tabs') = Len(tabs) - 1
               /\ \A k \in Keys(tabs') : TabOf(tabs', k) = TabOf(tabs, k)
               /\ IF current_tab_id = id
                  THEN IF Len(tabs') > 0
                       THEN HasTab(tabs', current_tab_id')
                       ELSE current_tab_id' = None
                  ELSE current_tab_id' = current_tab_id]_vars

\* tab_2 was closed and tab_1, the tab that remains, is current.
C11_Witness ==
    /\ \E o \in ToolCalls :
         /\ o.name = "browser_tab_close"
         /\ TextOf(o.result[1]) = <<"Tab closed: ", "tab_2">>
    /\ assigned = {"tab_1", "tab_2"}
    /\ Keys(tabs) = {"tab_1"}
    /\ current_tab_id = "tab_1"

\* C12: browser_tab_switch with a tab_id that is not a key of the tab
\* mapping raises nothing, leaves the mapping and the current slot as they
\* were and returns a result whose error flag is not set.
C12_SwitchAbsentIsNoOp ==
    [][\A t \in Tasks : \A i \in 1..Len(out') :
         (/\ Called(t)
          /\ out'[i].op = "call_tool"
          /\ out'[i].name = "browser_tab_switch"
          /\ out'[i].args.tab_id # Absent
          /\ ~HasTab(tabs, out'[i].args.tab_id)) =>
            /\ UNCHANGED <<tabs, current_tab_id>>
            /\ out'[i].raised = <<>>
            /\ Len(out'[i].result) = 1
            /\ out'[i].result[1].is_error = FALSE]_vars

\* A switch to tab_2, never assigned, was answered while tab_1 was current.
C12_Witness ==
    /\ \E o \in ToolCalls :
         /\ o.name = "browser_tab_switch"
         /\ o.args.tab_id = "tab_2"
         /\ o.result[1].is_error = FALSE
    /\ assigned = {"tab_1"}
    /\ Keys(tabs) = {"tab_1"}
    /\ current_tab_id = "tab_1"

\* C13: stop() is total: whenever it ends, with or without a failed close,
\* it has raised nothing and the context, engine and driver handles, the tab
\* mapping and the current slot are cleared.
C13_StopAlwaysClears ==
    \A i \in 1..Len(out) :
        out[i].op = "stop" =>
            /\ out[i].raised = <<>>
            /\ context = 0
            /\ browser = 0
            /\ playwright = 0
            /\ tabs = <<>>
            /\ current_tab_id = None

\* C14: stop() releases in a fixed order.  It issues context.close() first;
\* it issues browser.close() only after its context.close() has closed the
\* context, or with no context to close; and playwright.stop() only after
\* its browser.close() has closed the engine instance, or with no engine
\* instance to close and the context dealt with in the same way.
C14_StopOrder ==
    [][\A t \in Tasks :
         (task'[t].name = "shutdown" /\ task'[t].pc # task[t].pc) =>
            /\ task'[t].pc = "context_close" => task[t].pc = "idle"
            /\ task'[t].pc = "browser_close" =>
                 \/ task[t].pc = "context_close" /\ task[t].target \notin contexts'
                 \/ task[t].pc = "idle" /\ context = 0
            /\ task'[t].pc = "playwright_stop" =>
                 \/ task[t].pc = "browser_close" /\ task[t].target \notin Ids(browsers')
                 \/ /\ task[t].pc = "context_close"
                    /\ task[t].target \notin contexts'
                    /\ browser = 0
                 \/ task[t].pc = "idle" /\ context = 0 /\ browser = 0]_vars

\* stop() waits for playwright.stop() with the session's context and engine
\* instance closed and its tab still registered.
C14_Witness ==
    \E t \in Tasks :
        /\ task[t].name = "shutdown"
        /\ task[t].pc = "playwright_stop"
        /\ context # 0 /\ context \notin contexts
        /\ browser # 0 /\ browser \notin Ids(browsers)
        /\ playwright \in drivers
        /\ Len(tabs) > 0

\* C15: once stop() has completed without a failed step and no invocation
\* is in progress, no engine instance and no context is left running.
C15_StopReleasesAll ==
    \A i \in 1..Len(out) :
        (/\ out[i].op = "stop"
         /\ out[i].raised = <<>>
         /\ \A t \in Tasks : task[t].pc = "idle") =>
            /\ browsers = {}
            /\ contexts = {}

\* The engine calls a handler issues on a tab's page.
PageCalls == {"new_tab_goto", "goto", "get_title", "page_close", "bring_to_front"}

\* C16: two invocations never have engine calls pending on the same page at
\* once, so the calls of one never fall between the calls of the other.
C16_TabCallsSerialized ==
    \A t, u \in Tasks :
        (/\ t # u
         /\ task[t].pc \in PageCalls
         /\ task[u].pc \in PageCalls) => task[t].target # task[u].target

\* C17: while no invocation is in progress, the page of every registered
\* tab was created in the context the session holds.
C17_TabsShareContext ==
    (\A t \in Tasks : task[t].pc = "idle") =>
        \A i \in 1..Len(tabs) : tabs[i].page.context = context

\* C18: a call of a registered tool that lacks one of the arguments its
\* schema requires ends with the dispatcher's own error result, whose text
\* begins "Error executing <name>".
C18_MissingArgReported ==
    (/\ call.pc = "done"
     /\ IsRegistered(tools, call.name)
     /\ RequiredOf(tools, call.name) \ call.args # {}) =>
        /\ call.result[1].is_error = TRUE
        /\ Len(TextOf(call.result[1])) >= 2
        /\ TextOf(call.result[1])[1] = "Error executing "
        /\ TextOf(call.result[1])[2] = call.name

\* The least n with n * e >= h, for h >= 0 and e > 0: ceil(h / e).
CeilDiv(h, e) == CHOOSE n \in 0..h : n * e >= h /\ \A m \in 0..(n - 1) : m * e < h

\* The tile count has been computed from a tile height above the overlap.
TilesCounted ==
    /\ shot.pc \notin {"idle", "get_current_tab", "scrollHeight", "innerWidth"}
    /\ shot.fault_at \notin {"get_current_tab", "scrollHeight", "innerWidth"}
    /\ shot.cancelled_at \notin {"get_current_tab", "scrollHeight", "innerWidth"}
    /\ shot.viewport_height > shot.overlap

\* C19 as stated: the tile count is min(max_pages, ceil(H / (T - O))), never
\* above max_pages, and exactly one for a page with 0 < H <= T - O.
C19_TileCountAsStated ==
    TilesCounted =>
        /\ shot.num_pages = Min(shot.max_pages,
                                CeilDiv(shot.height, shot.viewport_height - shot.overlap))
        /\ shot.num_pages <= shot.max_pages
        /\ (0 < shot.height /\ shot.height <= shot.viewport_height - shot.overlap)
              => shot.num_pages = 1

\* C19: the tile count is min(max_pages, ceil(H / (T - O))), never above
\* max_pages, and exactly one for a page with 0 < H <= T - O when
\* max_pages is at least one.
C19_TileCount ==
    TilesCounted =>
        /\ shot.num_pages = Min(shot.max_pages,
                                CeilDiv(shot.height, shot.viewport_height - shot.overlap))
        /\ shot.num_pages <= shot.max_pages
        /\ (0 < shot.height /\ shot.height <= shot.viewport_height - shot.overlap
            /\ shot.max_pages >= 1) => shot.num_pages = 1

\* A page of height 5 cut into tiles of 3 overlapping by 1 gave 3 tiles, and
\* a page of height 2 gave one.
C19_Witness ==
    /\ TilesCounted
    /\ shot.viewport_height = 3
    /\ shot.overlap = 1
    /\ shot.max_pages = 3
    /\ \/ shot.height = 5 /\ shot.num_pages = 3 /\ shot.filenames = 3
       \/ shot.height = 2 /\ shot.num_pages = 1 /\ shot.filenames = 1

Images(res) == SelectSeq(res.content, LAMBDA c : c.type = "image")

Listed == call.pc = "done" /\ call.name = "tools/list"

\* The names of a category, in declaration order.
NamesOf(category) == [i \in 1..Len(category) |-> category[i].name]

\* C22: the introspection list has one entry of name, description and schema
\* per registered tool, in the order navigation, interaction, capture,
\* utility, each in declaration order; every schema has type "object" and a
\* properties mapping.
C22_ListMatchesRegistry ==
    Listed =>
        /\ Len(call.result) = Len(tools)
        /\ [i \in 1..Len(call.result) |-> call.result[i].name] =
              NamesOf(NavigationTools) \o NamesOf(InteractionTools)
                 \o NamesOf(CaptureTools) \o NamesOf(UtilityTools)
        /\ \A i, j \in 1..Len(call.result) :
              call.result[i].name = call.result[j].name => i = j
        /\ \A i \in 1..Len(call.result) :
              /\ DOMAIN call.result[i] = {"name", "description", "inputSchema"}
              /\ call.result[i].name = tools[i].name
              /\ call.result[i].description = tools[i].description
              /\ call.result[i].inputSchema = tools[i].input_schema
              /\ call.result[i].inputSchema["type"] = "object"
              /\ "properties" \in DOMAIN call.result[i].inputSchema

\* The list has been returned; its first entry is browser_navigate and its
\* last browser_tab_switch.
C22_Witness ==
    /\ Listed
    /\ call.result[1].name = "browser_navigate"
    /\ call.result[1].inputSchema["required"] = <<"url">>
    /\ call.result[Len(call.result)].name = "browser_tab_switch"

\* C23: the introspection list has exactly 21 entries.
C23_ListHas21 == Listed => Len(call.result) = 21

\* C24: whatever execute and introspection calls have been made, the
\* registry holds the names and descriptors its construction put there.
C24_RegistryFixed == tools = ToolRegistry

\* An unknown name has been asked for and the list has been asked for, and
\* the registry is as constructed.
C24_Witness ==
    /\ call.pc = "done"
    /\ call.name \in {"invalid_tool", "tools/list"}
    /\ Len(tools) = Len(ToolRegistry)
    /\ \A i \in 1..Len(tools) : tools[i] = ToolRegistry[i]

\* An execute_tool call has returned its result.
Executed == call.pc = "done" /\ call.name # "tools/list"

\* C25: every result with the error flag set, from the dispatcher or from a
\* handler, has a text item first, and its text is not empty.
C25_ErrorsCarryText ==
    (Executed /\ call.result[1].is_error) =>
        /\ Len(call.result[1].content) >= 1
        /\ call.result[1].content[1].type = "text"
        /\ Len(call.result[1].content[1].text) >= 1
        /\ call.result[1].content[1].text[1] # ""

\* The dispatcher caught a handler's exception and answered with its text.
C25_Witness ==
    /\ Executed
    /\ call.raised # <<>>
    /\ call.result[1].is_error
    /\ call.result[1].content[1].text[1] = "Error executing "

\* This step is the goto of task t's new_tab(url) failing.
NewTabGotoFailed(t) ==
    /\ task[t].pc = "new_tab_goto"
    /\ task'[t].pc = "idle"
    /\ out'[1].result[1].is_error

\* C26: when the goto of new_tab(url) fails, browser_tab_new returns an
\* error-flagged result saying so, the step undoes nothing in the tab
\* mapping or the current slot, and with one invocation at a time the tab
\* new_tab has registered is still registered and current.
C26_FailedGotoKeepsTab ==
    [][\A t \in Tasks : NewTabGotoFailed(t) =>
         /\ out'[1].name = "browser_tab_new"
         /\ TextOf(out'[1].result[1]) = <<"New tab failed: ", EngineFault>>
         /\ out'[1].raised = <<>>
         /\ UNCHANGED <<tabs, current_tab_id>>
         /\ scenario.tasks = {t} =>
              /\ HasTab(tabs', task[t].tab_id)
              /\ TabOf(tabs', task[t].tab_id).page.id = task[t].target
              /\ current_tab_id' = task[t].tab_id]_vars

\* browser_tab_new(url) has opened a second tab, its goto failed, and the
\* tab is registered and current.
C26_Witness ==
    /\ \E o \in ToolCalls :
         /\ o.name = "browser_tab_new"
         /\ o.args.url = Url
         /\ TextOf(o.result[1]) = <<"New tab failed: ", EngineFault>>
    /\ Keys(tabs) = {"tab_1", "tab_2"}
    /\ current_tab_id = "tab_2"
    /\ Cardinality(pages) = 2

\* C27: an engine selection outside chromium, firefox and webkit fails before
\* any tool invocation is served: no invocation is ever answered with an
\* error result that carries the unsupported-selection fault.
C27_UnsupportedNeverServed ==
    \A o \in ToolCalls :
        ~(o.result[1].is_error /\ HasPiece(o.result[1], UnsupportedMsg(browser_type)))

\* C28: the dispatcher invokes the bound handler exactly once for a call with
\* a registered name, whether the handler returns, reports a fault itself or
\* raises, and invokes no handler for a call with an unregistered name.
C28_HandlerInvokedOnce ==
    Executed =>
        call.invoked = (IF IsRegistered(tools, call.name) THEN 1 ELSE 0)

\* The handler of a registered tool raised and the dispatcher has answered.
C28_Witness ==
    /\ Executed
    /\ IsRegistered(tools, call.name)
    /\ call.raised # <<>>
    /\ call.invoked = 1

\* C29: no exception leaves handle_call_tool; when the dispatcher call itself
\* raised, the handler returns a list of exactly one text item,
\* "Error executing tool '<name>': <message>".
C29_NoExceptionEscapes ==
    call.pc = "answered" =>
        /\ call.escaped = <<>>
        /\ Len(call.response) = 1
        /\ call.exc # <<>> =>
             call.response[1] =
                <<[type |-> "text",
                   text |-> <<"Error executing tool '", call.name, "': ", call.exc[1]>>]>>

\* The dispatcher raised for force_error and handle_call_tool has returned.
C29_Witness ==
    /\ call.pc = "answered"
    /\ call.name = "force_error"
    /\ call.exc = <<"This is a test error">>
    /\ Len(call.response) = 1
    /\ Len(call.response[1]) = 1

\* Nothing is launched and no tab is registered.
Unstarted ==
    /\ playwright = 0
    /\ browser = 0
    /\ context = 0
    /\ tabs = <<>>
    /\ current_tab_id = None
    /\ drivers = {}
    /\ browsers = {}
    /\ contexts = {}
    /\ pages = {}

\* The tools whose handlers ask for a tab.
TabNeeding == {"browser_navigate", "browser_tab_new"}

\* C30: the session starts lazily.  After construction nothing is launched
\* and no tab is registered; an unstarted session is started only by a step
\* of an invocation that needs a tab; and on an unstarted session
\* browser_tab_list, browser_tab_close and browser_tab_switch are answered
\* without an engine call and leave the session unstarted.
C30_LazyStart ==
    /\ Unstarted
    /\ [][Unstarted =>
            /\ ~Unstarted' =>
                 \E t \in Tasks : /\ task[t].pc = "playwright_start"
                                  /\ task[t].name \in TabNeeding
            /\ \A t \in Tasks :
                 (Called(t) /\ task'[t].pc \notin {"idle", "context_close",
                                                   "browser_close", "playwright_stop"}) =>
                     task'[t].name \in TabNeeding
            /\ \A i \in 1..Len(out') :
                 (/\ out'[i].op = "call_tool"
                  /\ out'[i].name \in {"browser_tab_list", "browser_tab_close",
                                       "browser_tab_switch"}) =>
                     /\ Unstarted'
                     /\ out'[i].raised = <<>> \/ out'[i].args.tab_id = Absent]_vars

\* browser_tab_switch was answered for a tab identifier on a session that is
\* still unstarted.
C30_Witness ==
    /\ Unstarted
    /\ \E o \in ToolCalls : /\ o.name = "browser_tab_switch"
                            /\ o.args.tab_id # Absent
                            /\ o.raised = <<>>

\* C31: when stop() returns without a failed step the session fields are as
\* after construction (no driver, engine or context handle, no tab, no
\* current tab) and, with one invocation at a time, nothing is left running;
\* and a get_current_tab that finds the session so, and is not interleaved
\* with, returns a tab that is new, the only one registered and current, on
\* a page of a context and an engine instance that are running and are the
\* session's.
C31_StopThenCurrentTab ==
    [][/\ \A i \in 1..Len(out') :
            (out'[i].op = "stop" /\ out'[i].raised = <<>>) =>
                /\ playwright' = 0
                /\ browser' = 0
                /\ context' = 0
                /\ tabs' = <<>>
                /\ current_tab_id' = None
                /\ Cardinality(scenario.tasks) = 1 => Unstarted'
       /\ \A t \in Tasks :
            (/\ task[t].ret = <<>> /\ task'[t].ret # <<>> /\ task'[t].pre # <<>>
             /\ task'[t].pre[1].cur = None
             /\ task'[t].pre[1].tabs = <<>>
             /\ task'[t].pre[1].browsers = {}) =>
                LET got == task'[t].ret[1]
                IN /\ Len(tabs') = 1
                   /\ tabs'[1].tab_id = got.tab_id
                   /\ tabs'[1].page.id = got.page
                   /\ current_tab_id' = got.tab_id
                   /\ got.page \in pages'
                   /\ tabs'[1].page.context = context'
                   /\ context' \in contexts'
                   /\ browser' \in Ids(browsers')
                   /\ playwright' \in drivers']_vars

\* Two tabs were opened, stop() ended every engine instance, and a
\* get_current_tab after it has returned the tab it created.
C31_Witness ==
    \E t \in Tasks :
        /\ task[t].ret # <<>>
        /\ task[t].pre # <<>>
        /\ task[t].pre[1].cur = None
        /\ task[t].pre[1].tabs = <<>>
        /\ task[t].pre[1].browsers = {}
        /\ assigned = {"tab_1", "tab_2"}
        /\ Len(tabs) = 1
        /\ current_tab_id = "tab_1"

\* The entries of a browser_tab_list answer that carry the active marker.
ActiveLines(text) == {k \in 1..((Len(text) - 1) \div 3) : text[3 * k - 1] = "*"}

\* C32: browser_tab_list answers with one entry per registered tab, in the
\* order of the mapping, and changes nothing in the session or the engine;
\* the entry of the current tab is the only one flagged active, and with no
\* current tab no entry is flagged.
C32_ListTabsSnapshot ==
    [][\A i \in 1..Len(out') :
         (out'[i].op = "call_tool" /\ out'[i].name = "browser_tab_list") =>
            LET text == TextOf(out'[i].result[1])
            IN /\ UNCHANGED <<sessVars, engineVars, assigned>>
               /\ out'[i].result[1].is_error = FALSE
               /\ IF tabs = <<>>
                  THEN text = <<"No tabs open">>
                  ELSE /\ Len(text) = 1 + 3 * Len(tabs)
                       /\ \A k \in 1..Len(tabs) : text[3 * k] = tabs[k].tab_id
                       /\ ActiveLines(text)
                            = {k \in 1..Len(tabs) : tabs[k].tab_id = current_tab_id}
               /\ tabs # <<>> =>
                    Cardinality(ActiveLines(text)) = (IF current_tab_id # None THEN 1 ELSE 0)]_vars

\* Two tabs were listed while the first of them was the current one.
C32_Witness ==
    /\ Len(tabs) = 2
    /\ current_tab_id = tabs[1].tab_id
    /\ \E o \in ToolCalls :
         /\ o.name = "browser_tab_list"
         /\ Len(TextOf(o.result[1])) = 7
         /\ ActiveLines(TextOf(o.result[1])) = {1}

\* C37: the current-tab id is unset exactly when the tab mapping is empty.
C37_CurrentIffTabs == (current_tab_id = None) <=> (tabs = <<>>)

\* The current tab was closed while another was open, and the one left is
\* the current one.
C37_Witness ==
    /\ Len(tabs) = 1
    /\ current_tab_id = tabs[1].tab_id
    /\ \E o \in ToolCalls :
         /\ o.name = "browser_tab_close"
         /\ o.args.tab_id = Absent
         /\ ~o.result[1].is_error
         /\ HasPiece(o.result[1], "tab_2")

\* The engine call of browser_click, or of browser_wait in its selector or
\* text form, has been issued for a call that carries no timeout argument.
TimedWithoutArg ==
    /\ call.pc = "body"
    /\ call.name \in TimeoutTools
    /\ "timeout" \notin call.args
    /\ call.name = "browser_wait" =>
         ("time" \notin call.args /\ call.args \cap {"selector", "text"} # {})

\* C33: a browser_click or a browser_wait (selector or text form) invoked
\* without a timeout argument runs with the session's configured default
\* timeout.
C33_DefaultTimeoutGoverns == TimedWithoutArg => call.timeout = timeout

\* C34: on a document of height H >= 1 tiled with T > O >= 0, every tile i
\* that is captured has 0 <= i < tile count, was scrolled to i * (T - O),
\* and is clipped to min(T, H - y), a height of at least 1 and at most T.
C34_ClipWithinTile ==
    (/\ shot.pc = "screenshot"
     /\ shot.page_height >= 1
     /\ shot.viewport_height > shot.overlap
     /\ shot.overlap >= 0) =>
        /\ shot.page_num \in 0..(shot.num_pages - 1)
        /\ shot.scroll_y = shot.page_num * (shot.viewport_height - shot.overlap)
        /\ shot.clip_height = Min(shot.viewport_height, shot.page_height - shot.scroll_y)
        /\ shot.clip_height >= 1
        /\ shot.clip_height <= shot.viewport_height

\* The third tile of a document of height 5, tiled by 3 with overlap 1, is
\* about to be captured with a clip of height 1.
C34_Witness ==
    /\ shot.pc = "screenshot"
    /\ shot.page_height = 5
    /\ shot.viewport_height = 3
    /\ shot.overlap = 1
    /\ shot.page_num = 2
    /\ shot.scroll_y = 4
    /\ shot.clip_height = 1

\* C35: when the handler's task is cancelled at an await inside the tile
\* loop, the page is scrolled back to the offset it had when the handler was
\* called before control leaves the handler.
C35_RestoredOnCancel ==
    (shot.pc = "cancelled" /\ shot.cancelled_at \in LoopAwaits) =>
        shot.scrollY = shot.entry

\* C36: when browser_download_pdf has completed after finding at least one
\* PDF link, the page shows the url it showed when the handler was called.
C36_BackOnOriginalPage ==
    (/\ pdf.pc = "done"
     /\ pdf.pdf_links >= 1
     /\ ~pdf.result[1].is_error) =>
        pdf.history[pdf.at] = pdf.entry

\* C38: of two close_tab calls that run at once on one registered id, the
\* one that finds the entry gone when its page.close() returns raises
\* nothing, reports no error and changes nothing.
C38_ConcurrentCloseNoOp ==
    [][\A u \in Tasks :
         (/\ task[u].pc = "page_close"
          /\ task'[u].pc = "idle"
          /\ ~HasTab(tabs, task[u].tab_id)) =>
             /\ ~out'[1].result[1].is_error
             /\ UNCHANGED <<tabs, current_tab_id>>]_vars

\* C39: when start() fails because the engine selection is unsupported, the
\* session afterwards holds no driver, no engine and no context and has
\* registered no tab.
C39_FailedStartLeavesNothing ==
    \A o \in ToolCalls :
        HasPiece(o.result[1], UnsupportedMsg(browser_type)) =>
            /\ playwright = 0
            /\ browser = 0
            /\ context = 0
            /\ tabs = <<>>

\* C40: a tiled capture whose overlap is not below its tile height returns
\* an error result and has written no file.
C40_NonPositiveStepFails ==
    (shot.pc = "done" /\ shot.overlap >= shot.viewport_height) =>
        /\ shot.result[1].is_error
        /\ shot.filenames = 0

====
